---- MODULE Spec2Model ----
(***************************************************************************)
(* Collaboration Scout: the throttled, caching GitHub client               *)
(* (src/github/client.ts, src/github/throttle.ts), the two-pass discovery  *)
(* pipeline (src/scout/pass1.ts, analyze.ts, pass2.ts) and the brief       *)
(* generator (src/briefs/generator.ts), as state machines.                 *)
(*                                                                         *)
(* The audit log (src/config/redact.ts, src/db/dao/audit.ts) and the       *)
(* OpenRouter client with the LLM steps around it (src/llm/client.ts)      *)
(* follow.                                                                 *)
(*                                                                         *)
(* The specifications share the module, one per subsystem; each keeps the  *)
(* variables of the others at their initial values.                        *)
(*   SpecHttp    GitHubClient.request with its TokenBucketLimiter and the  *)
(*               http_cache table                                          *)
(*   SpecScout   runPass1 / runAnalysis / runPass2 over the repos,         *)
(*               readmes, repo_query_links and analyses tables             *)
(*   SpecBriefs  the shortlisting loop of generateBriefs                   *)
(*   SpecAudit   AuditDao.write with redactSecrets                         *)
(*   SpecLlm     callOpenRouter and the steps llm_repo_analysis and        *)
(*               llm_brief_generate, unit by unit                          *)
(*   SpecFilter  filterPair (src/briefs/overlap_filter.ts) on one pair of  *)
(*               function signatures                                       *)
(*   SpecGroups  generateCandidateGroups (src/briefs/grouper.ts) on the    *)
(*               same rows in two orders                                   *)
(*   SpecKeywords aggregateKeywords (src/scout/keyword_aggregator.ts) on   *)
(*               the analyses and keywords of one run                      *)
(*   SpecReplay  replayScoring (src/scout/replay.ts) on the analyses that  *)
(*               runAnalysis stored for one run                            *)
(*   SpecLimiter a TokenBucketLimiter called directly, as its tests do     *)
(*   SpecReadmes ReadmesDao.upsert (src/db/dao/repos.ts) on the readmes     *)
(*               table, row by row                                         *)
(*   SpecOrchestrator createRunOrchestrator (src/scout/run_context.ts) as   *)
(*               the CLI commands use it, with the run id of each row      *)
(*   SpecWaiters two callers of TokenBucketLimiter.waitForToken on the     *)
(*               search bucket, interleaved at their sleeps                *)
(*   SpecOverlap two runAnalysis invocations (directly or from runPass2),  *)
(*               interleaved at their LLM calls                            *)
(***************************************************************************)
EXTENDS Integers, Sequences, FiniteSets, TLC

VARIABLES
  \* ---- GitHubClient / TokenBucketLimiter / http_cache
  now,          \* the clock (_getNow, Date.now), in ms
  tokens,       \* TokenBucketLimiter.tokens, in 1/TokenScale of a token
  lastRefill,   \* TokenBucketLimiter.lastRefill
  cache,        \* http_cache: cache key -> row
  pc,           \* where the request in flight stands
  req,          \* the request in flight: bucket, cache key, `cached` snapshot
  attempt,      \* the local `attempt` of request()
  sleepMs,      \* length of the sleep the request is in (or was last in)
  resp,         \* the response handled last: status and the headers read
  result,       \* what request() returned or threw
  hist,         \* per-request counters: fetches made, tokens taken per bucket
  throttle,     \* the last event handed to onThrottle
  nfetch,       \* network fetches made so far, over all requests
  \* ---- scout pipeline
  repos,        \* repos table: the full names stored
  readmes,      \* readmes table: repo -> number of rows
  links,        \* repo_query_links joined with github_queries: run -> repos
  analyses,     \* analyses table: run -> repo -> number of rows
  call,         \* the pipeline call in progress
  ncalls,       \* pipeline calls started so far
  \* ---- brief generator
  brief,        \* the generateBriefs call in progress
  \* ---- audit log
  audit,        \* audit_log: the data_json of the row written last
  \* ---- OpenRouter client
  llm,          \* the LLM-backed unit (one analysis or one brief) in progress
  \* ---- functional-overlap filter
  pair,         \* the filterPair call examined: its arguments and its result
  \* ---- candidate grouping
  grp,          \* the generateCandidateGroups calls examined
  \* ---- keyword aggregation
  kw,           \* the analyses and keywords tables of one run, and the
                \* aggregateKeywords calls made on it
  \* ---- score replay
  rescore,      \* the analyses of one run as stored, and the replayScoring
                \* calls made on it
  \* ---- a TokenBucketLimiter on its own
  lim,          \* its fields, its clock and the call made last
  \* ---- the readmes table on its own
  rdm,          \* its rows, and what ReadmesDao.upsert stored last per repo
  \* ---- a run orchestrator and the rows written around it
  orch,         \* the orchestrator object, its closure, and the rows written
  \* ---- callers waiting on one TokenBucketLimiter
  wtr,          \* the limiter's search bucket, its clock and each caller
  \* ---- runAnalysis invocations that overlap
  ovl           \* the analyses table and where each invocation stands

httpVars == <<now, tokens, lastRefill, cache, pc, req, attempt, sleepMs, resp,
              result, hist, throttle, nfetch>>
scoutVars == <<repos, readmes, links, analyses, call, ncalls>>
briefVars == <<brief>>
auditVars == <<audit>>
llmVars == <<llm>>
fnVars == <<pair, grp, kw, rescore, lim>>
tableVars == <<rdm, orch, wtr, ovl>>
vars == <<httpVars, scoutVars, briefVars, auditVars, llmVars, fnVars, tableVars>>

\* what the actions of one subsystem leave alone
notHttp == <<scoutVars, briefVars, auditVars, llmVars, fnVars, tableVars>>
notScout == <<httpVars, briefVars, auditVars, llmVars, fnVars, tableVars>>
notBriefs == <<httpVars, scoutVars, auditVars, llmVars, fnVars, tableVars>>
notAudit == <<httpVars, scoutVars, briefVars, llmVars, fnVars, tableVars>>
notLlm == <<httpVars, scoutVars, briefVars, auditVars, fnVars, tableVars>>
notFilter == <<httpVars, scoutVars, briefVars, auditVars, llmVars, grp, kw, rescore, lim,
               tableVars>>
notGroups == <<httpVars, scoutVars, briefVars, auditVars, llmVars, pair, kw, rescore, lim,
               tableVars>>
notKeywords == <<httpVars, scoutVars, briefVars, auditVars, llmVars, pair, grp, rescore,
                 lim, tableVars>>
notReplay == <<httpVars, scoutVars, briefVars, auditVars, llmVars, pair, grp, kw, lim,
               tableVars>>
notLimiter == <<httpVars, scoutVars, briefVars, auditVars, llmVars, pair, grp, kw,
                rescore, tableVars>>
notReadmes == <<httpVars, scoutVars, briefVars, auditVars, llmVars, fnVars, orch, wtr,
                ovl>>
notOrchestrator == <<httpVars, scoutVars, briefVars, auditVars, llmVars, fnVars, rdm,
                     wtr, ovl>>
notWaiters == <<httpVars, scoutVars, briefVars, auditVars, llmVars, fnVars, rdm, orch,
                ovl>>
notOverlap == <<httpVars, scoutVars, briefVars, auditVars, llmVars, fnVars, rdm, orch,
                wtr>>

Max(a, b) == IF a >= b THEN a ELSE b
Min(a, b) == IF a <= b THEN a ELSE b

(***************************************************************************)
(* Bounds of the model.                                                    *)
(***************************************************************************)
MaxFetches == 2       \* a request starts only while fewer fetches than this were made

(***************************************************************************)
(* Strings are sequences of one-character strings, so that parsing is      *)
(* computed and not assumed.                                               *)
(***************************************************************************)
Digits == {"0", "1", "2", "3", "4", "5", "6", "7", "8", "9"}

DigitVal(c) ==
  CASE c = "0" -> 0 [] c = "1" -> 1 [] c = "2" -> 2 [] c = "3" -> 3
    [] c = "4" -> 4 [] c = "5" -> 5 [] c = "6" -> 6 [] c = "7" -> 7
    [] c = "8" -> 8 [] c = "9" -> 9

RECURSIVE SkipSpaces(_)
SkipSpaces(s) ==
  IF s # <<>> /\ Head(s) = " " THEN SkipSpaces(Tail(s)) ELSE s

\* The value of the longest prefix of digits of s, given the value acc of the
\* digits read so far and whether any digit was read.
RECURSIVE ReadDigits(_, _, _)
ReadDigits(s, acc, any) ==
  IF s # <<>> /\ Head(s) \in Digits
    THEN ReadDigits(Tail(s), acc * 10 + DigitVal(Head(s)), TRUE)
    ELSE [nan |-> ~any, val |-> acc]

\* parseInt(s, 10): leading white space, an optional sign, then the longest
\* prefix of digits; NaN when there is no digit.
ParseInt(s) ==
  LET t == SkipSpaces(s)
      neg == t # <<>> /\ Head(t) = "-"
      signed == t # <<>> /\ Head(t) \in {"-", "+"}
      d == ReadDigits(IF signed THEN Tail(t) ELSE t, 0, FALSE)
  IN  [nan |-> d.nan, val |-> IF neg THEN 0 - d.val ELSE d.val]

\* A header as response.headers.get() gives it: absent (null) or a string.
Absent == [present |-> FALSE, text |-> <<>>]
Hdr(t) == [present |-> TRUE, text |-> t]

\* JavaScript truthiness of `string | null`: neither null nor "".
Truthy(h) == h.present /\ h.text # <<>>


(***************************************************************************)
(* TokenBucketLimiter (src/github/throttle.ts).                            *)
(* Token counts are kept in units of 1/TokenScale of a token, the common   *)
(* denominator that makes both refill rates whole numbers per millisecond. *)
(***************************************************************************)
Buckets == {"search", "core"}

TokenScale == 36000
SearchMaxTokens == 30
CoreMaxTokens == 5000

\* DEFAULT_CONFIGS[bucket].maxTokens, in units
MaxTokens(b) ==
  IF b = "search" THEN SearchMaxTokens * TokenScale ELSE CoreMaxTokens * TokenScale

\* DEFAULT_CONFIGS[bucket].refillRatePerMs, in units per ms:
\* 30 / (60 * 1000) and 5000 / (60 * 60 * 1000) tokens per ms
RefillRatePerMs(b) ==
  IF b = "search" THEN (SearchMaxTokens * TokenScale) \div (60 * 1000)
                  ELSE (CoreMaxTokens * TokenScale) \div (60 * 60 * 1000)

CeilDiv(a, b) == (a + b - 1) \div b

RefillUnclamped(b, tok, last, t) == tok + (t - last) * RefillRatePerMs(b)

\* refill(bucket): the token count after refilling at time t
Refill(b, tok, last, t) ==
  Min(MaxTokens(b), tok + (t - last) * RefillRatePerMs(b))

ConsumeTakesWhileEmpty(b, tok, last, t) ==
  LET filled == Refill(b, tok, last, t)
  IN  IF filled >= TokenScale
        THEN [tokens |-> filled - TokenScale, waitMs |-> 0]
        ELSE [tokens |-> filled - TokenScale,
              waitMs |-> CeilDiv(TokenScale - filled, RefillRatePerMs(b))]

\* consume(bucket) at time t: the token count left and the wait returned.
\* A wait of 0 means a token was taken.
Consume(b, tok, last, t) ==
  LET filled == Refill(b, tok, last, t)
  IN  IF filled >= TokenScale
        THEN [tokens |-> filled - TokenScale, waitMs |-> 0]
        ELSE [tokens |-> filled,
              waitMs |-> CeilDiv(TokenScale - filled, RefillRatePerMs(b))]

DefaultBackoffMs == 60000

\* handleRateLimitResponse: the wait computed from the headers at time t
HandleRateLimitResponse(retryAfter, rateLimitReset, t) ==
  LET seconds == ParseInt(retryAfter.text)
      resetEpoch == ParseInt(rateLimitReset.text)
  IN  IF Truthy(retryAfter)
        THEN IF ~seconds.nan THEN seconds.val * 1000 ELSE DefaultBackoffMs
        ELSE IF Truthy(rateLimitReset)
          THEN IF ~resetEpoch.nan
                 THEN Max(0, resetEpoch.val * 1000 - t) + 1000
                 ELSE DefaultBackoffMs
          ELSE DefaultBackoffMs

\* handleRateLimitResponse, reset_at: with a non-empty X-RateLimit-Reset
\* that is no number, new Date(NaN).toISOString() throws a RangeError
ResetAtThrows(rateLimitReset) ==
  Truthy(rateLimitReset) /\ ParseInt(rateLimitReset.text).nan

\* the event with the reason of a 429 whatever the status
RateLimitEventAs429(b, status, waitMs) ==
  [bucket |-> b, wait_ms |-> waitMs, reason |-> "rate_limit_429"]

\* the throttle event of handleRateLimitResponse
RateLimitEvent(b, status, waitMs) ==
  [bucket |-> b, wait_ms |-> waitMs,
   reason |-> IF status = 429 THEN "rate_limit_429" ELSE "secondary_rate_limit_403"]

\* the throttle event of consume
BucketEmptyEvent(b, waitMs) ==
  [bucket |-> b, wait_ms |-> waitMs, reason |-> "token_bucket_empty"]

NoEvent == [bucket |-> "none", wait_ms |-> 0, reason |-> "none"]

(***************************************************************************)
(* http_cache rows and response bodies.                                    *)
(***************************************************************************)
NoRow == [exists |-> FALSE, status |-> 0, etag |-> Absent,
          last_modified |-> Absent, body |-> <<>>, fetched_at |-> 0]

\* JSON.parse on the JSON texts of the model: a number literal parses to its
\* value, everything else (the empty string included) is a SyntaxError.
JsonParse(text) ==
  LET d == ReadDigits(text, 0, FALSE)
      allDigits == text # <<>> /\ \A i \in 1..Len(text) : text[i] \in Digits
  IN  [ok |-> allDigits, num |-> IF allDigits THEN d.val ELSE 0]

NullData == [kind |-> "null", num |-> 0, text |-> <<>>]
JsonData(n) == [kind |-> "json", num |-> n, text |-> <<>>]
TextData(t) == [kind |-> "text", num |-> 0, text |-> t]

\* request(), 2xx branch: null for an empty body, the parsed JSON, or the raw
\* text when the body is not JSON
SuccessData(text) ==
  IF text = <<>> THEN NullData
  ELSE IF JsonParse(text).ok THEN JsonData(JsonParse(text).num)
  ELSE TextData(text)

NoResult == [kind |-> "none", status |-> 0, fromCache |-> FALSE,
             data |-> NullData, error |-> "none"]
Returned(status, data, fromCache) ==
  [kind |-> "return", status |-> status, fromCache |-> fromCache,
   data |-> data, error |-> "none"]
Thrown(error, status) ==
  [kind |-> "throw", status |-> status, fromCache |-> FALSE,
   data |-> NullData, error |-> error]

\* throw new GitHubServerError(response.status)
ServerErrorThrown(status) == Thrown("GitHubServerError", status)

\* the 429/403 branch throwing the error class of the 5xx branch
RateLimitThrownAsServerError(status) == Thrown("GitHubServerError", status)

\* throw new GitHubRateLimitError(response.status, waitMs)
RateLimitThrown(status) == Thrown("GitHubRateLimitError", status)

\* throw new GitHubApiError(response.status, url.toString())
ApiErrorThrown(status) == Thrown("GitHubApiError", status)

\* request(), 304 branch: the stored body_blob is a Buffer (never null after
\* upsert, and a Buffer is truthy even when empty), so it is always parsed.
NotModifiedResult(cached) ==
  IF JsonParse(cached.body).ok
    THEN Returned(200, JsonData(JsonParse(cached.body).num), TRUE)
    ELSE Thrown("SyntaxError", 304)

\* a 304 handled like a 200: the row is rewritten from the (empty) 304 response
UpdateWholeRow(c, key, t) ==
  IF c[key].exists
    THEN [c EXCEPT ![key] = [@ EXCEPT !.fetched_at = t, !.body = <<>>, !.status = 304]]
    ELSE c

\* HttpCacheDao.updateFetchedAt: UPDATE http_cache SET fetched_at = ? WHERE cache_key = ?
UpdateFetchedAt(c, key, t) ==
  IF c[key].exists THEN [c EXCEPT ![key].fetched_at = t] ELSE c

\* HttpCacheDao.upsert: INSERT ... ON CONFLICT(cache_key) DO UPDATE
Upsert(c, key, row) == [c EXCEPT ![key] = row]

(***************************************************************************)
(* The requests the pipeline makes (src/github/api.ts) and the responses   *)
(* a server may give.                                                      *)
(***************************************************************************)
MAX_RETRIES == 3

RequestKinds ==
  { [key |-> "/search/repositories", bucket |-> "search"],
    [key |-> "/repos/o/r/readme", bucket |-> "core"] }
Keys == { k.key : k \in RequestKinds }

\* Retry-After / X-RateLimit-Reset pairs of a 429 or 403: each header absent,
\* empty, a number, a number followed by text, or no number
RateLimitHeaders ==
  { <<Hdr(<<"1">>), Absent>>,
    <<Hdr(<<"1">>), Hdr(<<"x">>)>>,
    <<Hdr(<<"1", "s">>), Hdr(<<"2">>)>>,
    <<Hdr(<<"x">>), Hdr(<<"2">>)>>,
    <<Hdr(<<>>), Hdr(<<"2">>)>>,
    <<Absent, Hdr(<<"2">>)>>,
    <<Absent, Hdr(<<"x">>)>>,
    <<Absent, Absent>> }

\* ETag / body pairs of a 200
SuccessBodies ==
  { <<Hdr(<<"e">>), <<"7">> >>, <<Hdr(<<"e">>), <<"#", "r">> >>,
    <<Absent, <<"7">> >>, <<Absent, <<>> >> }

Response(status, ra, reset, etag, body) ==
  [status |-> status, retry_after |-> ra, rate_limit_reset |-> reset,
   etag |-> etag, last_modified |-> Absent, body |-> body]

Responses ==
  { Response(200, Absent, Absent, b[1], b[2]) : b \in SuccessBodies }
  \cup { Response(s, Absent, Absent, Absent, <<>>) : s \in {304, 404, 500} }
  \cup { Response(s, h[1], h[2], Absent, <<>>) :
           s \in {429, 403}, h \in RateLimitHeaders }

NoResponse == Response(0, Absent, Absent, Absent, <<>>)
NoRequest == [bucket |-> "core", key |-> "/repos/o/r/readme", cached |-> NoRow,
              ifNoneMatch |-> Absent, ifModifiedSince |-> Absent]
NoHist == [fetches |-> 0, taken |-> [b \in Buckets |-> 0]]


(***************************************************************************)
(* GitHubClient.request (src/github/client.ts).  One request is in flight  *)
(* at a time; an action is the code between two awaits.                    *)
(*   pc: idle -> [tokenSleep] -> fetch -> done                             *)
(*             fetch -> rateLimitSleep -> [tokenSleep] -> fetch            *)
(*             fetch -> backoffSleep -> fetch                              *)
(***************************************************************************)
\* the times (ms) that may pass between two requests
IdleTimes == {1000}

\* an off-by-one retry limit: attempt > MAX_RETRIES
RetriesExhaustedLate(a) == a > MAX_RETRIES

\* while (attempt < MAX_RETRIES) / if (attempt >= MAX_RETRIES) throw
RetriesExhausted(a) == a >= MAX_RETRIES

\* sleep(Math.pow(2, attempt) * 1000)
ServerBackoffMs(a) == (2 ^ a) * 1000

\* await sleep(ms): the clock after the timer fired
AfterSleep(t, ms) == t + Max(ms, 0)

\* limiter.waitForToken(bucket) called at time t with per-request counters h:
\* consume() either takes a token, and the request goes on to fetch, or
\* reports a wait, a throttle event is emitted and the request sleeps.
\* sl and ev are the sleep length and throttle event kept when there is no wait.
WaitForToken(b, t, h, sl, ev) ==
  LET c == Consume(b, tokens[b], lastRefill[b], t)
  IN  /\ tokens' = [tokens EXCEPT ![b] = c.tokens]
      /\ lastRefill' = [lastRefill EXCEPT ![b] = t]
      /\ IF c.waitMs > 0
           THEN /\ pc' = "tokenSleep"
                /\ sleepMs' = c.waitMs
                /\ throttle' = BucketEmptyEvent(b, c.waitMs)
                /\ hist' = h
           ELSE /\ pc' = "fetch"
                /\ sleepMs' = sl
                /\ throttle' = ev
                /\ hist' = [h EXCEPT !.taken[b] = @ + 1]

\* request() up to its first await: read the cache row, wait for a token,
\* build the conditional headers
RequestStart(k) ==
  /\ pc \in {"idle", "done"}
  /\ nfetch < MaxFetches
  /\ req' = [bucket |-> k.bucket, key |-> k.key, cached |-> cache[k.key],
             ifNoneMatch |->
               IF Truthy(cache[k.key].etag) THEN cache[k.key].etag ELSE Absent,
             ifModifiedSince |->
               IF Truthy(cache[k.key].last_modified)
                 THEN cache[k.key].last_modified ELSE Absent]
  /\ attempt' = 0
  /\ resp' = NoResponse
  /\ result' = NoResult
  /\ WaitForToken(k.bucket, now, NoHist, 0, NoEvent)
  /\ UNCHANGED <<now, cache, nfetch>>
  /\ UNCHANGED notHttp

\* waitForToken after its sleep: this.tokens[bucket] -= 1, with no refill
TokenSleepDone ==
  /\ pc = "tokenSleep"
  /\ now' = AfterSleep(now, sleepMs)
  /\ tokens' = [tokens EXCEPT ![req.bucket] = @ - TokenScale]
  /\ hist' = [hist EXCEPT !.taken[req.bucket] = @ + 1]
  /\ pc' = "fetch"
  /\ UNCHANGED <<lastRefill, cache, req, attempt, sleepMs, resp, result,
                 throttle, nfetch>>
  /\ UNCHANGED notHttp

\* const response = await this._fetch(url, { method: 'GET', headers }), and
\* the headers read from it
Fetched(r) ==
  /\ nfetch' = nfetch + 1
  /\ resp' = r
  /\ hist' = [hist EXCEPT !.fetches = @ + 1]

\* response.status === 304 && cached
FetchNotModified(r) ==
  /\ pc = "fetch"
  /\ r.status = 304 /\ req.cached.exists
  /\ Fetched(r)
  /\ cache' = UpdateFetchedAt(cache, req.key, now)
  /\ result' = NotModifiedResult(req.cached)
  /\ pc' = "done"
  /\ UNCHANGED <<now, tokens, lastRefill, req, attempt, sleepMs, throttle>>
  /\ UNCHANGED notHttp

\* response.status === 429 || response.status === 403, and
\* handleRateLimitResponse throws: the error leaves request()
FetchRateLimitThrows(r) ==
  /\ pc = "fetch"
  /\ ~(r.status = 304 /\ req.cached.exists)
  /\ r.status \in {429, 403}
  /\ ResetAtThrows(r.rate_limit_reset)
  /\ Fetched(r)
  /\ result' = Thrown("RangeError", r.status)
  /\ pc' = "done"
  /\ UNCHANGED <<now, tokens, lastRefill, cache, req, attempt, sleepMs, throttle>>
  /\ UNCHANGED notHttp

\* response.status === 429 || response.status === 403
FetchRateLimited(r) ==
  /\ pc = "fetch"
  /\ ~(r.status = 304 /\ req.cached.exists)
  /\ r.status \in {429, 403}
  /\ ~ResetAtThrows(r.rate_limit_reset)
  /\ Fetched(r)
  /\ LET waitMs == HandleRateLimitResponse(r.retry_after, r.rate_limit_reset, now)
     IN  /\ throttle' = RateLimitEvent(req.bucket, r.status, waitMs)
         /\ sleepMs' = waitMs
  /\ attempt' = attempt + 1
  /\ IF RetriesExhausted(attempt + 1)
       THEN /\ result' = RateLimitThrown(r.status)
            /\ pc' = "done"
       ELSE /\ result' = result
            /\ pc' = "rateLimitSleep"
  /\ UNCHANGED <<now, tokens, lastRefill, cache, req>>
  /\ UNCHANGED notHttp

\* await sleep(waitMs); await this.limiter.waitForToken(bucket); continue
RateLimitSleepDone ==
  /\ pc = "rateLimitSleep"
  /\ now' = AfterSleep(now, sleepMs)
  /\ WaitForToken(req.bucket, AfterSleep(now, sleepMs), hist, sleepMs, throttle)
  /\ UNCHANGED <<cache, req, attempt, resp, result, nfetch>>
  /\ UNCHANGED notHttp

\* response.status >= 500
FetchServerError(r) ==
  /\ pc = "fetch"
  /\ ~(r.status = 304 /\ req.cached.exists)
  /\ r.status \notin {429, 403}
  /\ r.status >= 500
  /\ Fetched(r)
  /\ attempt' = attempt + 1
  /\ IF RetriesExhausted(attempt + 1)
       THEN /\ result' = ServerErrorThrown(r.status)
            /\ pc' = "done"
            /\ sleepMs' = sleepMs
       ELSE /\ result' = result
            /\ pc' = "backoffSleep"
            /\ sleepMs' = ServerBackoffMs(attempt + 1)
  /\ UNCHANGED <<now, tokens, lastRefill, cache, req, throttle>>
  /\ UNCHANGED notHttp

\* await sleep(Math.pow(2, attempt) * 1000); continue
BackoffSleepDone ==
  /\ pc = "backoffSleep"
  /\ now' = AfterSleep(now, sleepMs)
  /\ pc' = "fetch"
  /\ UNCHANGED <<tokens, lastRefill, cache, req, attempt, sleepMs, resp, result,
                 hist, throttle, nfetch>>
  /\ UNCHANGED notHttp

\* the http_cache row that the 2xx branch stores
CacheRowOf(r, t) ==
  [exists |-> TRUE, status |-> r.status, etag |-> r.etag,
   last_modified |-> r.last_modified, body |-> r.body, fetched_at |-> t]

\* response.status >= 200 && response.status < 300
FetchSuccess(r) ==
  /\ pc = "fetch"
  /\ ~(r.status = 304 /\ req.cached.exists)
  /\ r.status \notin {429, 403}
  /\ r.status < 500
  /\ r.status >= 200 /\ r.status < 300
  /\ Fetched(r)
  /\ cache' = Upsert(cache, req.key, CacheRowOf(r, now))
  /\ result' = Returned(r.status, SuccessData(r.body), FALSE)
  /\ pc' = "done"
  /\ UNCHANGED <<now, tokens, lastRefill, req, attempt, sleepMs, throttle>>
  /\ UNCHANGED notHttp

\* throw new GitHubApiError(response.status, url): 404, a 304 with no cache row, ...
FetchOtherError(r) ==
  /\ pc = "fetch"
  /\ ~(r.status = 304 /\ req.cached.exists)
  /\ r.status \notin {429, 403}
  /\ r.status < 500
  /\ ~(r.status >= 200 /\ r.status < 300)
  /\ Fetched(r)
  /\ result' = ApiErrorThrown(r.status)
  /\ pc' = "done"
  /\ UNCHANGED <<now, tokens, lastRefill, cache, req, attempt, sleepMs,
                 throttle>>
  /\ UNCHANGED notHttp

\* time passes between two requests
Idle(ms) ==
  /\ pc = "done"
  /\ pc' = "idle"
  /\ now' = now + ms
  /\ UNCHANGED <<tokens, lastRefill, cache, req, attempt, sleepMs, resp, result,
                 hist, throttle, nfetch>>
  /\ UNCHANGED notHttp

\* new TokenBucketLimiter(): both buckets full, lastRefill = now.  A limiter
\* that has served search traffic may also hold less than one search token;
\* the second initial state is such a limiter, observed at time 0.
InitTokenLevels ==
  { [b \in Buckets |-> MaxTokens(b)],
    [b \in Buckets |-> IF b = "search" THEN TokenScale \div 2 ELSE MaxTokens(b)] }


HttpNext ==
  \/ \E k \in RequestKinds : RequestStart(k)
  \/ TokenSleepDone
  \/ \E r \in Responses : FetchNotModified(r)
  \/ \E r \in Responses : FetchRateLimitThrows(r)
  \/ \E r \in Responses : FetchRateLimited(r)
  \/ RateLimitSleepDone
  \/ \E r \in Responses : FetchServerError(r)
  \/ BackoffSleepDone
  \/ \E r \in Responses : FetchSuccess(r)
  \/ \E r \in Responses : FetchOtherError(r)
  \/ \E ms \in IdleTimes : Idle(ms)


(***************************************************************************)
(* The store tables the discovery pipeline writes (src/db/dao/repos.ts,    *)
(* src/db/dao/analyses.ts).  A table is kept as the number of rows per     *)
(* key, so that a duplicate row is a state the model can be in.            *)
(***************************************************************************)
Repos == {"a/x", "b/y", "c/z"}
RepoOrder == <<"a/x", "b/y", "c/z">>
Runs == {"run1", "run2"}

MaxCalls == 3        \* pipeline calls (runPass1, runAnalysis, runPass2) per behaviour
MaxItems == 2        \* repositories one search returns
MaxQueries == 2      \* pass-2 query strings generated from the keywords
MaxCap == 1          \* largest value of maxNewReposTotal

\* the values of maxLLMAnalysesTotal a caller passes
LLMCaps == {1}

\* ReposDao.getByFullName
GetByFullName(rp, r) == rp[r] > 0

\* an upsert that would INSERT without looking for the full_name
ReposInsert(rp, r) == [rp EXCEPT ![r] = @ + 1]

\* ReposDao.upsert: UPDATE the row with this full_name, or INSERT one
ReposUpsert(rp, r) == IF GetByFullName(rp, r) THEN rp ELSE [rp EXCEPT ![r] = @ + 1]

\* ReadmesDao.upsert: DELETE FROM readmes WHERE repo_id = ?, then INSERT
ReadmesUpsert(rm, r) == [rm EXCEPT ![r] = 1]

\* GithubQueriesDao.create + linkRepoToQuery, seen through the join of
\* repo_query_links with github_queries on run_id
LinkRepoToQuery(lk, run, r) == [lk EXCEPT ![run] = @ \cup {r}]

\* a lookup that binds the run of another call: WHERE repo_id = ? AND run_id = ?
\* with the wrong run_id
GetByRepoOtherRun(an, r, run) == \E other \in Runs \ {run} : an[other][r] > 0

\* AnalysesDao.getByRepoAndRun: a row WHERE repo_id = ? AND run_id = ?
GetByRepoAndRun(an, r, run) == an[run][r] > 0

\* AnalysesDao.insert: a new row under a fresh analysis_id
AnalysesInsert(an, r, run) == [an EXCEPT ![run][r] = @ + 1]

\* getReposForRun: SELECT DISTINCT r.*, rm.content_text ... FROM repos r
\* JOIN repo_query_links JOIN github_queries LEFT JOIN readmes WHERE run_id = ?
\* One row per linked repo and README row of it (one row when it has none).
RECURSIVE ReposForRunFrom(_, _, _, _)
ReposForRunFrom(i, lk, rm, run) ==
  IF i > Len(RepoOrder) THEN <<>>
  ELSE LET r == RepoOrder[i]
           row == [repo |-> r, readme |-> rm[r] > 0]
           rows == IF r \notin lk[run] THEN <<>>
                   ELSE [n \in 1..Max(1, rm[r]) |-> row]
       IN  rows \o ReposForRunFrom(i + 1, lk, rm, run)

GetReposForRun(lk, rm, run) == ReposForRunFrom(1, lk, rm, run)

\* the item lists a search may return: distinct repositories, at most MaxItems
ItemLists ==
  { s \in UNION { [1..n -> Repos] : n \in 0..MaxItems } :
      \A i, j \in 1..Len(s) : i # j => s[i] # s[j] }

\* the README fetch of the iteration a hydrate loop has just made: for which
\* repository, how it ended and the audit event written for it
NoReadme == [repo |-> "none", outcome |-> "none", event |-> "none"]

NoCall ==
  [op |-> "idle", phase |-> "none", run |-> "run1", items |-> <<>>, idx |-> 0,
   queries |-> 0, discovered |-> 0, capped |-> FALSE, maxNew |-> 0, maxLLM |-> 0,
   snapshot |-> <<>>, analyzed |-> 0, failed |-> 0, threw |-> FALSE,
   kwCapped |-> FALSE, capEvents |-> {},
   readme |-> NoReadme]

\* the call returns: its locals are gone, its counters are the result
Finish(c) == [c EXCEPT !.phase = "done", !.items = <<>>, !.snapshot = <<>>,
                       !.idx = 0, !.queries = 0, !.readme = NoReadme]

CallFree == call.op = "idle" \/ call.phase = "done"


ReadmeOutcomes == {"fetched", "missing", "failed"}

\* ---- runPass1 (src/scout/pass1.ts)

\* the store loop of runPass1: upsert every repository and link it to the query
RECURSIVE StoreRepos(_, _)
StoreRepos(rp, items) ==
  IF items = <<>> THEN rp ELSE StoreRepos(ReposUpsert(rp, Head(items)), Tail(items))

RECURSIVE LinkRepos(_, _, _)
LinkRepos(lk, run, items) ==
  IF items = <<>> THEN lk
  ELSE LinkRepos(LinkRepoToQuery(lk, run, Head(items)), run, Tail(items))

\* the rate-limit snapshot or the search throws: both steps finish failed and
\* runPass1 rethrows
Pass1Throws(run) ==
  /\ CallFree /\ ncalls < MaxCalls
  /\ ncalls' = ncalls + 1
  /\ call' = [NoCall EXCEPT !.op = "pass1", !.run = run, !.phase = "done",
                            !.threw = TRUE]
  /\ UNCHANGED <<repos, readmes, links, analyses>>
  /\ UNCHANGED notScout

\* rate-limit snapshot, search, and the store loop, up to the first README fetch
Pass1Search(run, items) ==
  /\ CallFree /\ ncalls < MaxCalls
  /\ ncalls' = ncalls + 1
  /\ repos' = StoreRepos(repos, items)
  /\ links' = LinkRepos(links, run, items)
  /\ call' = IF items = <<>>
               THEN Finish([NoCall EXCEPT !.op = "pass1", !.run = run])
               ELSE [NoCall EXCEPT !.op = "pass1", !.run = run, !.items = items,
                                   !.idx = 1, !.phase = "hydrate"]
  /\ UNCHANGED <<readmes, analyses>>
  /\ UNCHANGED notScout

\* the audit event runPass1 writes for the outcome of getReadmeRaw: a
\* README, null (the request threw an error whose message holds 404), or
\* any other error
Pass1ReadmeEvent(outcome) ==
  CASE outcome = "fetched" -> "repo.readme.fetched"
    [] outcome = "missing" -> "repo.readme.missing"
    [] outcome = "failed" -> "repo.hydrate.failed"

\* one iteration of the hydrate loop: getReadmeRaw for every stored repository
Pass1Hydrate(outcome) ==
  /\ call.op = "pass1" /\ call.phase = "hydrate"
  /\ readmes' = IF outcome = "fetched"
                  THEN ReadmesUpsert(readmes, call.items[call.idx]) ELSE readmes
  /\ LET c == [call EXCEPT !.readme = [repo |-> call.items[call.idx],
                                       outcome |-> outcome,
                                       event |-> Pass1ReadmeEvent(outcome)]]
     IN  call' = IF call.idx >= Len(call.items)
                   THEN Finish(c) ELSE [c EXCEPT !.idx = @ + 1]
  /\ UNCHANGED <<repos, links, analyses, ncalls>>
  /\ UNCHANGED notScout

\* ---- runAnalysis (src/scout/analyze.ts)

\* const repos = getReposForRun(db, run_id), read once before the loop
BeginAnalysis(c) ==
  LET snap == GetReposForRun(links, readmes, c.run)
  IN  IF snap = <<>> THEN Finish(c)
      ELSE [c EXCEPT !.snapshot = snap, !.idx = 1, !.items = <<>>,
                     !.phase = "analyze"]

\* the end of one iteration of `for (const repo of repos)`
AdvanceAnalysis(c) ==
  IF c.idx >= Len(c.snapshot) THEN Finish(c) ELSE [c EXCEPT !.idx = @ + 1]

\* runAnalysis called on its own (scout:run after pass 1)
StartAnalysis(run) ==
  /\ CallFree /\ ncalls < MaxCalls
  /\ ncalls' = ncalls + 1
  /\ call' = BeginAnalysis([NoCall EXCEPT !.op = "analysis", !.run = run])
  /\ UNCHANGED <<repos, readmes, links, analyses>>
  /\ UNCHANGED notScout

\* the two `continue`s: already analysed in this run, or no README
AnalysisSkips(an, c) ==
  \/ GetByRepoAndRun(an, c.snapshot[c.idx].repo, c.run)
  \/ ~c.snapshot[c.idx].readme

AnalyzeSkip ==
  /\ call.phase = "analyze"
  /\ AnalysisSkips(analyses, call)
  /\ call' = AdvanceAnalysis(call)
  /\ UNCHANGED <<repos, readmes, links, analyses, ncalls>>
  /\ UNCHANGED notScout

\* the LLM call and the validation succeed: analysesDao.insert, analyzed++
AnalyzeOk ==
  /\ call.phase = "analyze"
  /\ ~AnalysisSkips(analyses, call)
  /\ analyses' = AnalysesInsert(analyses, call.snapshot[call.idx].repo, call.run)
  /\ call' = AdvanceAnalysis([call EXCEPT !.analyzed = @ + 1])
  /\ UNCHANGED <<repos, readmes, links, ncalls>>
  /\ UNCHANGED notScout

\* the LLM call or the validation throws: failed++
AnalyzeFail ==
  /\ call.phase = "analyze"
  /\ ~AnalysisSkips(analyses, call)
  /\ call' = AdvanceAnalysis([call EXCEPT !.failed = @ + 1])
  /\ UNCHANGED <<repos, readmes, links, analyses, ncalls>>
  /\ UNCHANGED notScout

\* ---- runPass2 (src/scout/pass2.ts)

\* The stats handed to finish() by the steps of runPass2 and of the
\* runAnalysis it ends with; a number is written "n".
KeywordStats(capped) ==
  [keywords_aggregated |-> "n", queries_will_run |-> "n", capped |-> capped]
\* all the stats a call of runPass2 can have recorded: of the keyword step,
\* of a search step (success, failed), of a hydrate step, of the analysis step
Pass2StepStats(c) ==
  << KeywordStats(c.kwCapped),
     [repos_found |-> "n"],
     [error |-> "String(err)"],
     [hydrated |-> "n"],
     [analyzed |-> "n", failed |-> "n", keywords_stored |-> "n"] >>

\* keyword aggregation and query generation: `generated` query strings come
\* out of the run's analyses (none when the run has no analysis), of which
\* the first maxQueries are kept; the keyword step is finished with
\* KeywordStats(capped), after the pass2.queries.capped event if it is capped
StartPass2(run, generated, maxQueries, maxNew, maxLLM) ==
  /\ CallFree /\ ncalls < MaxCalls
  /\ (\A r \in Repos : analyses[run][r] = 0) => generated = 0
  /\ ncalls' = ncalls + 1
  /\ call' = [NoCall EXCEPT !.op = "pass2", !.run = run, !.phase = "query",
                            !.queries = Min(generated, maxQueries),
                            !.capped = generated > maxQueries,
                            !.kwCapped = generated > maxQueries,
                            !.capEvents = IF generated > maxQueries
                                          THEN {"pass2.queries.capped"} ELSE {},
                            !.maxNew = maxNew, !.maxLLM = maxLLM]
  /\ UNCHANGED <<repos, readmes, links, analyses>>
  /\ UNCHANGED notScout

\* if (repos_discovered >= maxNewReposTotal)
NewReposCapReached(c) == c.discovered >= c.maxNew

\* the cap check at the head of the query loop binds: capped = true; break,
\* and runAnalysis begins
Pass2Capped ==
  /\ call.op = "pass2" /\ call.phase = "query"
  /\ call.queries > 0
  /\ NewReposCapReached(call)
  /\ call' = BeginAnalysis([call EXCEPT !.capped = TRUE, !.queries = 0,
                                        !.capEvents = @ \cup {"pass2.repos.capped"}])
  /\ UNCHANGED <<repos, readmes, links, analyses, ncalls>>
  /\ UNCHANGED notScout

\* the query loop ends, and runAnalysis begins
Pass2QueriesDone ==
  /\ call.op = "pass2" /\ call.phase = "query"
  /\ call.queries = 0
  /\ call' = BeginAnalysis(call)
  /\ UNCHANGED <<repos, readmes, links, analyses, ncalls>>
  /\ UNCHANGED notScout

\* searchRepos throws: the step finishes failed; continue
Pass2SearchFails ==
  /\ call.op = "pass2" /\ call.phase = "query"
  /\ call.queries > 0
  /\ ~NewReposCapReached(call)
  /\ call' = [call EXCEPT !.queries = @ - 1]
  /\ UNCHANGED <<repos, readmes, links, analyses, ncalls>>
  /\ UNCHANGED notScout

\* searchRepos returns result.items.slice(0, topNPerQuery)
Pass2Search(items) ==
  /\ call.op = "pass2" /\ call.phase = "query"
  /\ call.queries > 0
  /\ ~NewReposCapReached(call)
  /\ call' = IF items = <<>>
               THEN [call EXCEPT !.queries = @ - 1]
               ELSE [call EXCEPT !.phase = "item", !.items = items, !.idx = 1]
  /\ UNCHANGED <<repos, readmes, links, analyses, ncalls>>
  /\ UNCHANGED notScout

\* the end of one iteration of the hydrate loop of a query
AdvanceItem(c) ==
  IF c.idx >= Len(c.items)
    THEN [c EXCEPT !.phase = "query", !.queries = @ - 1, !.items = <<>>, !.idx = 0,
                   !.readme = NoReadme]
    ELSE [c EXCEPT !.idx = @ + 1]

\* existingRepo && analysesDao.getByRepoAndRun(existingRepo.repo_id, run_id)
AlreadyProcessed(rp, an, r, run) ==
  GetByFullName(rp, r) /\ GetByRepoAndRun(an, r, run)

\* already analysed in this run: link to the query only
Pass2ItemDedupe ==
  /\ call.op = "pass2" /\ call.phase = "item"
  /\ AlreadyProcessed(repos, analyses, call.items[call.idx], call.run)
  /\ links' = LinkRepoToQuery(links, call.run, call.items[call.idx])
  /\ call' = AdvanceItem(call)
  /\ UNCHANGED <<repos, readmes, analyses, ncalls>>
  /\ UNCHANGED notScout

\* upsert, link, fetch the README when the repo has none, repos_discovered++
Pass2ItemStore(outcome) ==
  /\ call.op = "pass2" /\ call.phase = "item"
  /\ ~AlreadyProcessed(repos, analyses, call.items[call.idx], call.run)
  /\ repos' = ReposUpsert(repos, call.items[call.idx])
  /\ links' = LinkRepoToQuery(links, call.run, call.items[call.idx])
  /\ readmes' = IF readmes[call.items[call.idx]] = 0 /\ outcome = "fetched"
                  THEN ReadmesUpsert(readmes, call.items[call.idx]) ELSE readmes
  /\ call' = AdvanceItem([call EXCEPT
                !.discovered = @ + 1,
                !.readme = IF readmes[call.items[call.idx]] = 0
                           THEN [repo |-> call.items[call.idx],
                                 outcome |-> outcome, event |-> "none"]
                           ELSE NoReadme])
  /\ UNCHANGED <<analyses, ncalls>>
  /\ UNCHANGED notScout

ScoutNext ==
  \/ \E run \in Runs : Pass1Throws(run)
  \/ \E run \in Runs, items \in ItemLists : Pass1Search(run, items)
  \/ \E o \in ReadmeOutcomes : Pass1Hydrate(o)
  \/ \E run \in Runs : StartAnalysis(run)
  \/ AnalyzeSkip
  \/ AnalyzeOk
  \/ AnalyzeFail
  \/ \E run \in Runs, g \in 0..MaxQueries, q \in 1..MaxQueries, n \in 1..MaxCap,
        m \in LLMCaps : StartPass2(run, g, q, n, m)
  \/ Pass2Capped
  \/ Pass2QueriesDone
  \/ Pass2SearchFails
  \/ \E items \in ItemLists : Pass2Search(items)
  \/ Pass2ItemDedupe
  \/ \E o \in ReadmeOutcomes : Pass2ItemStore(o)

(***************************************************************************)
(* generateBriefs (src/briefs/generator.ts).  The candidate groups are the *)
(* pairs generateCandidateGroups returns (the generator never passes       *)
(* groupSize) that pass the overlap filter, in the order of their overlap  *)
(* scores; every member of a group has a repo row and an analysis, so the  *)
(* `items.length < 2` skip never binds.  Scores are in hundredths.         *)
(***************************************************************************)
BriefRepos == Repos
NoOwn == "none"

MaxGroups == 3       \* candidate groups that pass the overlap filter
MaxBriefs == 2       \* largest value of maxBriefs

DefaultMinBriefScore == 75
BriefScores == {60, 75, 90}

\* opts.minBriefScore: left out, or given
MinBriefScores ==
  {[defined |-> FALSE, value |-> 0], [defined |-> TRUE, value |-> 90]}

Pairs == { g \in SUBSET BriefRepos : Cardinality(g) = 2 }

GroupLists ==
  { s \in UNION { [1..n -> Pairs] : n \in 0..MaxGroups } :
      \A i, j \in 1..Len(s) : i # j => s[i] # s[j] }

NoBriefs ==
  [phase |-> "idle", groups |-> <<>>, idx |-> 0, own |-> NoOwn, maxBriefs |-> 0,
   minBriefScore |-> DefaultMinBriefScore,
   shortlistedRepos |-> {}, stored |-> <<>>, briefs_generated |-> 0,
   candidates_evaluated |-> 0, failed |-> 0]


\* const hasOwnRepo = ownRepoId !== null && group.repo_ids.includes(ownRepoId)
HasOwnRepo(group, own) == own # NoOwn /\ own \in group

\* every() where the code has some(): skip only when all repos are shortlisted
AllAlreadyShortlisted(group, own, shortlisted) ==
  ~HasOwnRepo(group, own) /\ group \subseteq shortlisted

\* const anyAlreadyShortlisted = !hasOwnRepo && group.repo_ids.some(...)
AnyAlreadyShortlisted(group, own, shortlisted) ==
  ~HasOwnRepo(group, own) /\ group \cap shortlisted # {}

\* the status with > where the code has >=
BriefStatusAboveOnly(score, minBriefScore) ==
  IF score > minBriefScore THEN "shortlisted" ELSE "rejected_by_threshold"

\* scoreComps.brief_score >= minBriefScore ? 'shortlisted' : 'rejected_by_threshold'
BriefStatus(score, minBriefScore) ==
  IF score >= minBriefScore THEN "shortlisted" ELSE "rejected_by_threshold"

\* the end of one iteration of `for (const { group, penalty } of filteredGroups)`
AdvanceGroup(b) ==
  [b EXCEPT !.idx = @ + 1,
            !.phase = IF b.idx >= Len(b.groups) THEN "done" ELSE "loop"]

\* generateBriefs up to the head of the loop over the filtered groups;
\* const minBriefScore = opts.minBriefScore ?? 0.75
StartBriefs(groups, own, maxBriefs, minOpt) ==
  /\ brief.phase \in {"idle", "done"}
  /\ brief' = [NoBriefs EXCEPT !.groups = groups, !.own = own, !.idx = 1,
                               !.maxBriefs = maxBriefs,
                               !.minBriefScore =
                                  IF minOpt.defined THEN minOpt.value
                                  ELSE DefaultMinBriefScore,
                               !.phase = IF groups = <<>> THEN "done" ELSE "loop"]
  /\ UNCHANGED notBriefs

\* the test of the break with > where the code has >=
BriefsCapPassed(b) == b.briefs_generated > b.maxBriefs

\* briefs_generated >= maxBriefs, at the head of the loop body
BriefsCapReached(b) == b.briefs_generated >= b.maxBriefs

\* if (briefs_generated >= maxBriefs) break
BriefsBreak ==
  /\ brief.phase = "loop"
  /\ BriefsCapReached(brief)
  /\ brief' = [brief EXCEPT !.phase = "done"]
  /\ UNCHANGED notBriefs

\* if (anyAlreadyShortlisted) continue
BriefSkip ==
  /\ brief.phase = "loop"
  /\ ~BriefsCapReached(brief)
  /\ AnyAlreadyShortlisted(brief.groups[brief.idx], brief.own, brief.shortlistedRepos)
  /\ brief' = AdvanceGroup(brief)
  /\ UNCHANGED notBriefs

\* the LLM call or the validation of its output throws: failed++; continue
BriefFail ==
  /\ brief.phase = "loop"
  /\ ~BriefsCapReached(brief)
  /\ ~AnyAlreadyShortlisted(brief.groups[brief.idx], brief.own, brief.shortlistedRepos)
  /\ brief' = AdvanceGroup([brief EXCEPT !.candidates_evaluated = @ + 1,
                                         !.failed = @ + 1])
  /\ UNCHANGED notBriefs

\* briefsDao.insert with the status of the score; a shortlisted brief adds
\* its repos other than the own repo to shortlistedRepos
BriefInsert(score) ==
  /\ brief.phase = "loop"
  /\ ~BriefsCapReached(brief)
  /\ ~AnyAlreadyShortlisted(brief.groups[brief.idx], brief.own, brief.shortlistedRepos)
  /\ LET group == brief.groups[brief.idx]
         status == BriefStatus(score, brief.minBriefScore)
     IN  brief' = AdvanceGroup(
           [brief EXCEPT !.candidates_evaluated = @ + 1,
                         !.briefs_generated = @ + 1,
                         !.stored = Append(@, [repo_ids |-> group, score |-> score,
                                               status |-> status]),
                         !.shortlistedRepos =
                            IF status = "shortlisted"
                              THEN @ \cup (group \ {brief.own}) ELSE @])
  /\ UNCHANGED notBriefs

BriefNext ==
  \/ \E groups \in GroupLists, own \in BriefRepos \cup {NoOwn}, m \in 1..MaxBriefs,
        minOpt \in MinBriefScores :
        StartBriefs(groups, own, m, minOpt)
  \/ BriefsBreak
  \/ BriefSkip
  \/ BriefFail
  \/ \E score \in BriefScores : BriefInsert(score)

(***************************************************************************)
(* The audit log: redactSecrets (src/config/redact.ts) and AuditDao.write  *)
(* (src/db/dao/audit.ts).  A JSON value is a tagged record; keys and       *)
(* strings are sequences of characters, so that the key pattern and the    *)
(* text of data_json are computed.                                         *)
(***************************************************************************)
Str(s) == [t |-> "string", s |-> s]
Num == [t |-> "number"]
Arr(items) == [t |-> "array", items |-> items]
Obj(f) == [t |-> "object", f |-> f]
Undefined == [t |-> "undefined"]

Occurs(p, s) ==
  \E i \in 0..(Len(s) - Len(p)) : \A j \in 1..Len(p) : s[i + j] = p[j]

\* /token|key|secret|password|authorization/i .test(k); the i flag is
\* applied over the capital letters the keys of the model use
SECRET_KEY_PATTERNS(k) ==
  LET Lower(c) == CASE c = "K" -> "k" [] c = "A" -> "a" [] OTHER -> c
      lower == [i \in 1..Len(k) |-> Lower(k[i])]
  IN  \E p \in { <<"t","o","k","e","n">>, <<"k","e","y">>,
                  <<"s","e","c","r","e","t">>,
                  <<"p","a","s","s","w","o","r","d">>,
                  <<"a","u","t","h","o","r","i","z","a","t","i","o","n">> } :
        Occurs(p, lower)

REDACTED == <<"*","*","*","R","E","D","A","C","T","E","D","*","*","*">>

\* A value under a matching key is replaced when it is a non-empty string
\* and otherwise kept as it is; only the values under the other keys, and
\* the items of an array, are walked.
RECURSIVE RedactSecrets(_)
RedactSecrets(value) ==
  CASE value.t = "array" ->
         Arr([i \in 1..Len(value.items) |-> RedactSecrets(value.items[i])])
    [] value.t = "object" ->
         Obj([k \in DOMAIN value.f |->
                IF SECRET_KEY_PATTERNS(k)
                THEN IF value.f[k].t = "string" /\ Len(value.f[k].s) > 0
                     THEN Str(REDACTED)
                     ELSE value.f[k]
                ELSE RedactSecrets(value.f[k])])
    [] OTHER -> value

\* the keys of the audit data of the model, in the order of Object.entries
KeyOrder == << <<"a","p","i","K","e","y">>, <<"n","a","m","e">> >>

\* JSON.stringify: the text, one character per element
Quote(s) == <<"\"">> \o s \o <<"\"">>
RECURSIVE JsonStringify(_), StringifyItems(_), StringifyFields(_, _)
JsonStringify(v) ==
  CASE v.t = "string" -> Quote(v.s)
    [] v.t = "number" -> <<"7">>
    [] v.t = "array" -> <<"[">> \o StringifyItems(v.items) \o <<"]">>
    [] v.t = "object" ->
         <<"{">> \o StringifyFields(v.f, SelectSeq(KeyOrder, LAMBDA k : k \in DOMAIN v.f))
                 \o <<"}">>
StringifyItems(items) ==
  IF items = <<>> THEN <<>>
  ELSE JsonStringify(Head(items))
         \o (IF Len(items) > 1 THEN <<",">> \o StringifyItems(Tail(items)) ELSE <<>>)
StringifyFields(f, ks) ==
  IF ks = <<>> THEN <<>>
  ELSE Quote(Head(ks)) \o <<":">> \o JsonStringify(f[Head(ks)])
         \o (IF Len(ks) > 1 THEN <<",">> \o StringifyFields(f, Tail(ks)) ELSE <<>>)

\* The data a caller hands over: an object over these keys whose values
\* are strings, numbers, one-item arrays or objects of the same kind.  The
\* string "pw" stands for a credential and is put under matching keys only,
\* so that its text in data_json can only come from such a key.
AuditData ==
  LET pw == <<"p","w">>
      ok == <<"o","k">>
      keySets == SUBSET {KeyOrder[i] : i \in 1..Len(KeyOrder)}
      leaves == {Str(<<>>), Str(pw), Str(ok), Num}
      LeavesFor(k) == IF SECRET_KEY_PATTERNS(k) THEN {Str(<<>>), Str(pw), Num}
                      ELSE {Str(<<>>), Str(ok), Num}
      flatObjects ==
        UNION { {Obj(f) : f \in {g \in [D -> leaves] :
                                   \A k \in D : g[k] \in LeavesFor(k)}} : D \in keySets }
      flatArrays == {Arr(<<l>>) : l \in {Str(<<>>), Str(ok), Num}}
      ValuesFor(k) == LeavesFor(k) \cup flatArrays \cup flatObjects
  IN  UNION { {Obj(f) : f \in {g \in [D -> leaves \cup flatArrays \cup flatObjects] :
                                 \A k \in D : g[k] \in ValuesFor(k)}} : D \in keySets }

NoAudit == [data |-> Undefined, data_json |-> <<>>]

\* AuditDao.write, and logAudit which only adds the run id: data_json is
\* the text of the redacted data, or NULL (no text) without data.
AuditWrite(data) ==
  /\ audit' = [data |-> data,
               data_json |-> IF data = Undefined THEN <<>>
                             ELSE JsonStringify(RedactSecrets(data))]
  /\ UNCHANGED notAudit

AuditNext == \E data \in AuditData \cup {Undefined} : AuditWrite(data)

(***************************************************************************)
(* The OpenRouter client (src/llm/client.ts) and the LLM steps that call   *)
(* it: llm_repo_analysis (runAnalysis) and llm_brief_generate              *)
(* (generateBriefs).  A step is started, loads its policy and prompt, and  *)
(* loops over its units (repositories, candidate groups); a unit is        *)
(* skipped, or calls callOpenRouterJson, validates what it returns against *)
(* its schema and, in its catch block, counts a failure and writes one     *)
(* audit event; the step is finished after the loop.                       *)
(***************************************************************************)
LLM_MAX_RETRIES == 3
MaxUnits == 2        \* iterations of the loop of one step

\* The response bodies, named by what the parsing steps make of them.
BodyTexts == {"not json", "null", "no content", "content not json",
              "content fails schema", "content valid"}
Statuses == {200, 400, 429, 500}
ResponseOk(status) == status >= 200 /\ status <= 299

NoError == [name |-> "none", statusCode |-> 0, body |-> "", retryAfterMs |-> [nan |-> FALSE, val |-> 0]]
NetworkError == [NoError EXCEPT !.name = "Error"]
\* retryAfterSec = parseInt(Retry-After ?? '5'), kept in the error only
OpenRouterRateLimitError(retryAfter, body) ==
  LET sec == ParseInt(IF retryAfter.present THEN retryAfter.text ELSE <<"5">>)
  IN  [name |-> "OpenRouterRateLimitError", statusCode |-> 429, body |-> body,
       retryAfterMs |-> [nan |-> sec.nan, val |-> sec.val * 1000]]
OpenRouterError(status, body) ==
  [NoError EXCEPT !.name = "OpenRouterError", !.statusCode = status, !.body = body]
OpenRouterInvalidOutputError == [NoError EXCEPT !.name = "OpenRouterInvalidOutputError"]
\* parsed.choices of a body that is the JSON text null
TypeError == [NoError EXCEPT !.name = "TypeError"]
\* Schema.parse of validateRepoAnalysisOutput / validateBriefOutput
ZodError == [NoError EXCEPT !.name = "ZodError"]

NoReply == [status |-> 0, retryAfter |-> Absent, body |-> ""]

\* step: the status of the step row; finishes: calls of its finish();
\* remaining: iterations the loop has yet to make; failed, succeeded: the
\* counters `failed` and `analyzed` / `briefs_generated`; outcomes: what
\* became of each unit so far; the other fields belong to the unit at hand.
NoUnit ==
  [unit |-> "none", pc |-> "idle", step |-> "none", finishes |-> 0,
   remaining |-> 0, failed |-> 0, succeeded |-> 0, outcomes |-> <<>>,
   attempt |-> 0, fetches |-> 0, sleeps |-> <<>>, replies |-> <<>>,
   lastError |-> NoError, error |-> NoError, events |-> <<>>]

StepFree == llm.pc \in {"idle", "step done", "step threw"}
AtLoopHead == llm.pc \in {"loop", "unit ok", "unit failed"}

\* startStep, then loadScoringPolicy / loadPrompt and the queries return
\* and the loop begins over n units
StepStart(unit, n) ==
  /\ StepFree
  /\ llm' = [NoUnit EXCEPT !.unit = unit, !.pc = "loop", !.step = "running",
                           !.remaining = n]
  /\ UNCHANGED notLlm

\* startStep, then loadScoringPolicy (an unreadable policyPath) or
\* loadPrompt throws: the function is left with the exception
StepSetupThrows(unit) ==
  /\ StepFree
  /\ llm' = [NoUnit EXCEPT !.unit = unit, !.pc = "step threw", !.step = "running"]
  /\ UNCHANGED notLlm

\* the locals of one iteration, as a new iteration finds them
NewUnit(l) ==
  [l EXCEPT !.attempt = 0, !.fetches = 0, !.sleeps = <<>>, !.replies = <<>>,
            !.lastError = NoError, !.error = NoError, !.events = <<>>]

\* a status that would be failed as soon as one unit failed
StepStatusAnyFailed(failed, succeeded) ==
  IF failed > 0 THEN "failed" ELSE "success"

\* failed > 0 && analyzed === 0 ? 'failed' : 'success'
StepStatus(failed, succeeded) ==
  IF failed > 0 /\ succeeded = 0 THEN "failed" ELSE "success"

\* the loop is over: step.finish(stepStatus, stats)
StepFinish ==
  /\ AtLoopHead /\ llm.remaining = 0
  /\ llm' = [NewUnit(llm) EXCEPT !.pc = "step done",
                                 !.step = StepStatus(llm.failed, llm.succeeded),
                                 !.finishes = @ + 1]
  /\ UNCHANGED notLlm

\* `continue` before the LLM call: the repository is already analysed or
\* has no README, the group holds a repository already shortlisted
UnitSkip ==
  /\ AtLoopHead /\ llm.remaining > 0
  /\ llm' = [NewUnit(llm) EXCEPT !.pc = "loop", !.remaining = @ - 1,
                                 !.outcomes = Append(@, "skipped")]
  /\ UNCHANGED notLlm

\* a unit begins: callOpenRouterJson is called, attempt = 0
UnitStart ==
  /\ AtLoopHead /\ llm.remaining > 0
  /\ llm' = [NewUnit(llm) EXCEPT !.pc = "fetch"]
  /\ UNCHANGED notLlm

\* a loop that would run while attempt <= MAX_RETRIES
ContinueOnceMore(l, err) ==
  [l EXCEPT !.lastError = err,
            !.attempt = @ + 1,
            !.pc = IF l.attempt + 1 <= LLM_MAX_RETRIES THEN "backoff" ELSE "thrown",
            !.error = IF l.attempt + 1 <= LLM_MAX_RETRIES THEN @ ELSE err]

\* `continue`: the next round of the loop, or `throw lastError` after it
Continue(l, err) ==
  [l EXCEPT !.lastError = err,
            !.attempt = @ + 1,
            !.pc = IF l.attempt + 1 < LLM_MAX_RETRIES THEN "backoff" ELSE "thrown",
            !.error = IF l.attempt + 1 < LLM_MAX_RETRIES THEN @ ELSE err]

Received(l, reply) ==
  [l EXCEPT !.fetches = @ + 1, !.replies = Append(@, reply)]

\* attempt > 0: sleep 1000 * 2^(attempt - 1) ms before the fetch
LlmBackoff ==
  /\ llm.pc = "backoff"
  /\ llm' = [llm EXCEPT !.sleeps = Append(@, 1000 * 2^(llm.attempt - 1)),
                        !.pc = "fetch"]
  /\ UNCHANGED notLlm

\* the fetcher throws
LlmFetchNetworkError ==
  /\ llm.pc = "fetch"
  /\ llm' = Continue(Received(llm, NoReply), NetworkError)
  /\ UNCHANGED notLlm

LlmFetchRateLimited(retryAfter, body) ==
  /\ llm.pc = "fetch"
  /\ llm' = Continue(Received(llm, [status |-> 429, retryAfter |-> retryAfter, body |-> body]),
                     OpenRouterRateLimitError(retryAfter, body))
  /\ UNCHANGED notLlm

\* a client that would take a failed status for a retriable failure
LlmFetchHttpErrorRetried(status, body) ==
  /\ llm.pc = "fetch"
  /\ status # 429 /\ ~ResponseOk(status)
  /\ llm' = Continue(Received(llm, [status |-> status, retryAfter |-> Absent, body |-> body]),
                     OpenRouterError(status, body))
  /\ UNCHANGED notLlm

\* !resp.ok: thrown out of the loop
LlmFetchHttpError(status, body) ==
  /\ llm.pc = "fetch"
  /\ status # 429 /\ ~ResponseOk(status)
  /\ llm' = [Received(llm, [status |-> status, retryAfter |-> Absent, body |-> body])
               EXCEPT !.pc = "thrown", !.error = OpenRouterError(status, body)]
  /\ UNCHANGED notLlm

\* the body is not JSON, has no string at choices[0].message.content, or
\* that string is not JSON
LlmFetchInvalidOutput(status, body) ==
  /\ llm.pc = "fetch"
  /\ ResponseOk(status)
  /\ body \in {"not json", "no content", "content not json"}
  /\ llm' = Continue(Received(llm, [status |-> status, retryAfter |-> Absent, body |-> body]),
                     OpenRouterInvalidOutputError)
  /\ UNCHANGED notLlm

\* the body is the JSON text null: parsed.choices throws, outside any try
LlmFetchNullBody(status) ==
  /\ llm.pc = "fetch"
  /\ ResponseOk(status)
  /\ llm' = [Received(llm, [status |-> status, retryAfter |-> Absent, body |-> "null"])
               EXCEPT !.pc = "thrown", !.error = TypeError]
  /\ UNCHANGED notLlm

\* `return parsed`
LlmFetchReturns(status, body) ==
  /\ llm.pc = "fetch"
  /\ ResponseOk(status)
  /\ body \in {"content fails schema", "content valid"}
  /\ llm' = [Received(llm, [status |-> status, retryAfter |-> Absent, body |-> body])
               EXCEPT !.pc = "returned"]
  /\ UNCHANGED notLlm

ErrorEvent(unit) == IF unit = "analysis" THEN "repo.analysis.error"
                    ELSE "brief.generation.error"

\* the catch block of the unit
Caught(l, err) ==
  [l EXCEPT !.pc = "unit failed",
            !.error = err,
            !.failed = @ + 1,
            !.remaining = @ - 1,
            !.outcomes = Append(@, "failed"),
            !.events = Append(@, IF err.name = "OpenRouterInvalidOutputError"
                                 THEN "llm.output.invalid_json"
                                 ELSE ErrorEvent(l.unit))]

\* callOpenRouterJson threw
UnitCatch ==
  /\ llm.pc = "thrown"
  /\ llm' = Caught(llm, llm.error)
  /\ UNCHANGED notLlm

\* callOpenRouterJson returned and the schema rejects the output
UnitValidateFails ==
  /\ llm.pc = "returned"
  /\ llm.replies[Len(llm.replies)].body = "content fails schema"
  /\ llm' = Caught(llm, ZodError)
  /\ UNCHANGED notLlm

\* callOpenRouterJson returned and the output is valid: the row is stored
UnitValidateOk ==
  /\ llm.pc = "returned"
  /\ llm.replies[Len(llm.replies)].body = "content valid"
  /\ llm' = [llm EXCEPT !.pc = "unit ok",
                        !.succeeded = @ + 1,
                        !.remaining = @ - 1,
                        !.outcomes = Append(@, "succeeded"),
                        !.events = Append(@, IF llm.unit = "analysis"
                                             THEN "repo.analysis.complete"
                                             ELSE "brief.generated")]
  /\ UNCHANGED notLlm

LlmNext ==
  \/ \E unit \in {"analysis", "brief"}, n \in 0..MaxUnits : StepStart(unit, n)
  \/ \E unit \in {"analysis", "brief"} : StepSetupThrows(unit)
  \/ StepFinish
  \/ UnitSkip
  \/ UnitStart
  \/ LlmBackoff
  \/ LlmFetchNetworkError
  \/ \E h \in {Absent, Hdr(<<>>), Hdr(<<"1">>), Hdr(<<"7">>)}, body \in {"not json"} :
        LlmFetchRateLimited(h, body)
  \/ \E status \in Statuses, body \in {"not json"} : LlmFetchHttpError(status, body)
  \/ \E status \in Statuses, body \in BodyTexts : LlmFetchInvalidOutput(status, body)
  \/ \E status \in Statuses : LlmFetchNullBody(status)
  \/ \E status \in Statuses, body \in BodyTexts : LlmFetchReturns(status, body)
  \/ UnitCatch
  \/ UnitValidateFails
  \/ UnitValidateOk

\* The state after construction: a new limiter and client, an empty store,
\* and no call of the pipeline or the generator in progress.
(***************************************************************************)
(* The functional-overlap filter (src/briefs/overlap_filter.ts).           *)
(* Similarities are fractions <<numerator, denominator>>; the overlap      *)
(* score and the thresholds are in millionths, the unit the score is       *)
(* rounded to.                                                             *)
(***************************************************************************)
INTEROP_TRIGGER_TOKENS ==
  {"migration", "migrate", "interop", "compat", "compatibility", "adapter",
   "bridge", "benchmark", "benchmarks", "spec", "standard", "standards",
   "translator", "import", "export", "convert", "conversion"}

\* |A \cap B| / |A \cup B|, and 0 when both sets are empty
jaccard(a, b) ==
  IF a = {} /\ b = {} THEN <<0, 1>>
  ELSE LET intersection == Cardinality({item \in a : item \in b})
           union == Cardinality(a) + Cardinality(b) - intersection
       IN IF union = 0 THEN <<0, 1>> ELSE <<intersection, union>>

computeOverlapSimilarities(sigA, sigB) ==
  [problem_summary_sim |->
     jaccard(sigA.problem_summary_tokens, sigB.problem_summary_tokens),
   integration_surface_sim |->
     jaccard(sigA.integration_surface, sigB.integration_surface),
   keyword_primary_sim |->
     jaccard(sigA.keywords_primary, sigB.keywords_primary)]

\* Math.round((0.45 p + 0.35 i + 0.20 k) * 1_000_000), halves rounded up
computeFunctionalOverlapScore(sims) ==
  LET p == sims.problem_summary_sim
      i == sims.integration_surface_sim
      k == sims.keyword_primary_sim
      d == p[2] * i[2] * k[2]
      n == 10000 * (45 * p[1] * i[2] * k[2] + 35 * i[1] * p[2] * k[2]
                    + 20 * k[1] * p[2] * i[2])
  IN (2 * n + d) \div (2 * d)

hasInteropTokenPrimaryOnly(sig, triggerSet) ==
  \E token \in sig.keywords_primary : token \in triggerSet

\* the problem-summary tokens are not looked at
hasInteropToken(sig, triggerSet) ==
  \/ \E token \in sig.keywords_primary : token \in triggerSet
  \/ \E token \in sig.keywords_secondary : token \in triggerSet
  \/ \E token \in sig.search_queries_tokens : token \in triggerSet
  \/ \E token \in sig.integration_surface : token \in triggerSet

filterPairAllowsAtThreshold(sigA, sigB, config) ==
  LET sims == computeOverlapSimilarities(sigA, sigB)
      functional_overlap == computeFunctionalOverlapScore(sims)
      allowed == [functional_overlap |-> functional_overlap,
                  similarities |-> sims,
                  rejected |-> FALSE,
                  exception_triggered |-> FALSE,
                  exception_reason |-> "null",
                  penalty_applied |-> 0]
  IN IF functional_overlap <= config.overlap_threshold THEN allowed
     ELSE IF \/ hasInteropToken(sigA, INTEROP_TRIGGER_TOKENS)
             \/ hasInteropToken(sigB, INTEROP_TRIGGER_TOKENS)
       THEN [allowed EXCEPT !.exception_triggered = TRUE,
                            !.exception_reason = "interop_exception",
                            !.penalty_applied = config.exception_penalty]
     ELSE [allowed EXCEPT !.rejected = TRUE]

filterPair(sigA, sigB, config) ==
  LET triggerSet == INTEROP_TRIGGER_TOKENS
      sims == computeOverlapSimilarities(sigA, sigB)
      functional_overlap == computeFunctionalOverlapScore(sims)
      allowed == [functional_overlap |-> functional_overlap,
                  similarities |-> sims,
                  rejected |-> FALSE,
                  exception_triggered |-> FALSE,
                  exception_reason |-> "null",
                  penalty_applied |-> 0]
  IN IF functional_overlap < config.overlap_threshold THEN allowed
     ELSE IF hasInteropToken(sigA, triggerSet) \/ hasInteropToken(sigB, triggerSet)
       THEN [allowed EXCEPT !.exception_triggered = TRUE,
                            !.exception_reason = "interop_exception",
                            !.penalty_applied = config.exception_penalty]
     ELSE [allowed EXCEPT !.rejected = TRUE]

NoPair == [called |-> FALSE]

\* one call of filterPair: two signatures over a vocabulary of one plain and
\* one interop token, under a threshold of 0.0, of 0.70 (the default) or
\* above 1.0, with the default exception penalty of 0.10
FilterPairCall ==
  LET Some == SUBSET {"vector", "adapter"}
      Few == {{}, {"adapter"}}
      Signatures == [problem_summary_tokens : {{}, {"vector"}, {"adapter"}},
                     integration_surface : Some,
                     keywords_primary : Some,
                     keywords_secondary : Few,
                     search_queries_tokens : Few]
  IN /\ ~pair.called
     /\ \E sigA \in Signatures, sigB \in Signatures,
           threshold \in {0, 700000, 1000001} :
          LET config == [overlap_threshold |-> threshold,
                         exception_penalty |-> 100000]
          IN pair' = [called |-> TRUE, sigA |-> sigA, sigB |-> sigB,
                      config |-> config,
                      result |-> filterPair(sigA, sigB, config)]
     /\ UNCHANGED notFilter

FilterNext == FilterPairCall

(***************************************************************************)
(* Candidate grouping (src/briefs/grouper.ts).  Scores are in millionths.  *)
(***************************************************************************)
MaxCombosTried == 4   \* the maxCombos option ranges over 0..MaxCombosTried

\* the repository ids of the rows, in the order localeCompare and the
\* default sort put them
GroupRepoIds == <<"repo1", "repo2", "repo3">>

\* the strings compared by the model, in collation order
localeCompare(a, b) ==
  LET order == GroupRepoIds \o <<"rust", "wasm">>
      rank(id) == CHOOSE n \in 1..Len(order) : order[n] = id
  IN rank(a) - rank(b)

\* 0.4 jaccard(topics) + 0.2 [same language] + 0.2 jaccard(surface)
\* + 0.2 [exactly one has api or sdk], rounded to the millionth
scorePair(a, b) ==
  LET t == jaccard(a.topics, b.topics)
      u == jaccard(a.integration_surface, b.integration_surface)
      langMatch == IF a.language # "null" /\ b.language # "null"
                      /\ a.language = b.language THEN 200000 ELSE 0
      aHasApi == "api" \in a.integration_surface \/ "sdk" \in a.integration_surface
      bHasApi == "api" \in b.integration_surface \/ "sdk" \in b.integration_surface
      complementBonus == IF aHasApi # bHasApi THEN 200000 ELSE 0
      n == 400000 * t[1] * u[2] + 200000 * u[1] * t[2]
             + (langMatch + complementBonus) * t[2] * u[2]
      d == t[2] * u[2]
  IN (2 * n + d) \div (2 * d)

\* the filter loop over the analyses, in the order they are supplied
RECURSIVE Qualified(_, _, _)
Qualified(analysisRows, repoRows, opts) ==
  IF analysisRows = <<>> THEN <<>>
  ELSE LET analysis == Head(analysisRows)
           rest == Qualified(Tail(analysisRows), repoRows, opts)
           \* repoById: the last row of an id wins
           known == {n \in 1..Len(repoRows) : repoRows[n].repo_id = analysis.repo_id}
       IN IF \/ analysis.final_score < opts.minRepoScore
             \/ analysis.collaboration_potential < opts.minCollabPotential
             \/ known = {}
          THEN rest
          ELSE LET repo == repoRows[CHOOSE n \in known : \A m \in known : m <= n]
               IN <<[repo_id |-> analysis.repo_id,
                     topics |-> repo.topics,
                     language |-> repo.language,
                     integration_surface |-> analysis.integration_surface]>>
                  \o rest

\* [...].sort(): by code units, which for these ids is the order above
SortIds(ids) == SortSeq(ids, LAMBDA x, y : localeCompare(x, y) < 0)

SortQualifiedOmitted(qualified) == qualified

\* qualified.sort((a, b) => a.repo_id.localeCompare(b.repo_id))
SortQualified(qualified) ==
  SortSeq(qualified, LAMBDA a, b : localeCompare(a.repo_id, b.repo_id) < 0)

CapReachedLate(combosEvaluated, maxCombos) == combosEvaluated > maxCombos

\* if (combosEvaluated >= maxCombos) break
CapReached(combosEvaluated, maxCombos) == combosEvaluated >= maxCombos

\* the loop over k: the triples of the pair (i, j)
RECURSIVE TripleLoop(_, _, _, _, _, _)
TripleLoop(q, i, j, k, st, opts) ==
  IF k > Len(q) \/ CapReached(st.combosEvaluated, opts.maxCombos) THEN st
  ELSE LET a == q[i]
           b == q[j]
           c == q[k]
           sum == scorePair(a, b) + scorePair(b, c) + scorePair(a, c)
           triple == [repo_ids |-> SortIds(<<a.repo_id, b.repo_id, c.repo_id>>),
                      overlap_score |-> (2 * sum + 3) \div 6]
       IN TripleLoop(q, i, j, k + 1,
                     [groups |-> Append(st.groups, triple),
                      combosEvaluated |-> st.combosEvaluated + 1], opts)

\* the loop over j: the pairs of i, each followed by its triples
RECURSIVE PairLoop(_, _, _, _, _)
PairLoop(q, i, j, st, opts) ==
  IF j > Len(q) \/ CapReached(st.combosEvaluated, opts.maxCombos) THEN st
  ELSE LET a == q[i]
           b == q[j]
           group == [repo_ids |-> SortIds(<<a.repo_id, b.repo_id>>),
                     overlap_score |-> scorePair(a, b)]
           pushed == [groups |-> Append(st.groups, group),
                      combosEvaluated |-> st.combosEvaluated + 1]
       IN PairLoop(q, i, j + 1,
                   IF opts.groupSize = 3
                     THEN TripleLoop(q, i, j, j + 1, pushed, opts)
                     ELSE pushed,
                   opts)

\* the loop over i
RECURSIVE ComboLoop(_, _, _, _)
ComboLoop(q, i, st, opts) ==
  IF i > Len(q) THEN st
  ELSE LET after == PairLoop(q, i, i + 1, st, opts)
       IN IF CapReached(after.combosEvaluated, opts.maxCombos) THEN after
          ELSE ComboLoop(q, i + 1, after, opts)

\* a.repo_ids.join(',').localeCompare(b.repo_ids.join(',')) < 0, for ids
\* that hold no comma
RECURSIVE JoinedBefore(_, _)
JoinedBefore(x, y) ==
  IF x = <<>> THEN y # <<>>
  ELSE IF y = <<>> THEN FALSE
  ELSE IF localeCompare(Head(x), Head(y)) # 0
    THEN localeCompare(Head(x), Head(y)) < 0
  ELSE JoinedBefore(Tail(x), Tail(y))

generateCandidateGroups(analysisRows, repoRows, opts) ==
  LET qualified == Qualified(analysisRows, repoRows, opts)
  IN IF Len(qualified) < 2 THEN <<>>
     ELSE LET sorted == SortQualified(qualified)
              groups == ComboLoop(sorted, 1,
                                  [groups |-> <<>>, combosEvaluated |-> 0],
                                  opts).groups
          IN SortSeq(groups,
                     LAMBDA a, b :
                       IF b.overlap_score # a.overlap_score
                         THEN b.overlap_score < a.overlap_score
                         ELSE JoinedBefore(a.repo_ids, b.repo_ids))

NoGroups == [called |-> FALSE]

\* generateCandidateGroups on the rows of three repositories, supplied once
\* in the order of the tables and once in any order
GroupsCall ==
  LET n == Len(GroupRepoIds)
      Orders == {p \in [1..n -> 1..n] : \A x, y \in 1..n : p[x] = p[y] => x = y}
      Analyses == [1..n -> [final_score : {500000, 800000},
                            integration_surface : {{}, {"api"}}]]
      Languages == [1..n -> {"Python", "null"}]
  IN /\ ~grp.called
     /\ \E a \in Analyses, l \in Languages, pa \in Orders,
           present \in {n - 1, n}, reversed \in BOOLEAN,
           maxCombos \in 0..MaxCombosTried, groupSize \in {2, 3} :
          LET analysisRow(x) ==
                [repo_id |-> GroupRepoIds[x],
                 final_score |-> a[x].final_score,
                 collaboration_potential |-> 800000,
                 integration_surface |-> a[x].integration_surface]
              repoRow(x) ==
                [repo_id |-> GroupRepoIds[x], topics |-> {"ml"},
                 language |-> l[x]]
              opts == [minRepoScore |-> 600000, minCollabPotential |-> 650000,
                       maxCombos |-> maxCombos, groupSize |-> groupSize]
              stored == [analyses |-> [x \in 1..n |-> analysisRow(x)],
                         repos |-> [x \in 1..present |-> repoRow(x)]]
              supplied == [analyses |-> [x \in 1..n |-> analysisRow(pa[x])],
                           repos |-> [x \in 1..present |->
                                        IF reversed THEN repoRow(present + 1 - x)
                                        ELSE repoRow(x)]]
          IN grp' = [called |-> TRUE, opts |-> opts,
                     stored |-> stored, supplied |-> supplied,
                     ofStored |-> generateCandidateGroups(
                                    stored.analyses, stored.repos, opts),
                     ofSupplied |-> generateCandidateGroups(
                                      supplied.analyses, supplied.repos, opts)]
     /\ UNCHANGED notGroups

GroupsNext == GroupsCall

(***************************************************************************)
(* Keyword aggregation (src/scout/keyword_aggregator.ts) over the          *)
(* analyses and keywords tables of one run.  Tables are sequences in rowid *)
(* order; weights and scores are in millionths.                            *)
(***************************************************************************)
MaxAggregations == 2   \* aggregateKeywords calls made on the run

\* Array.prototype.sort, and ORDER BY over a table scan: a stable sort;
\* cmp[i, j] is the comparator's value for the elements s[i] and s[j]
StableSort(s, cmp) ==
  LET pos(i) == 1 + Cardinality({j \in 1..Len(s) :
                       \/ cmp[j, i] < 0
                       \/ cmp[j, i] = 0 /\ j < i})
  IN [n \in 1..Len(s) |-> s[CHOOSE i \in 1..Len(s) : pos(i) = n]]

\* kw.keyword.toLowerCase().trim(), on the keywords of the model
Normalized(keyword) == IF keyword = "Rust " THEN "rust" ELSE keyword

\* keyword_id: the hash of run, repo ('' for null), keyword and kind
KeywordId(row) == <<row.repo_id, row.keyword, row.kind>>

KeywordsInsertStrict(table, row) ==
  IF \E n \in 1..Len(table.rows) : KeywordId(table.rows[n]) = KeywordId(row)
    THEN [table EXCEPT !.threw = TRUE]
    ELSE [table EXCEPT !.rows = Append(@, row)]

\* INSERT OR IGNORE INTO keywords: a row whose keyword_id exists is dropped
KeywordsInsert(table, row) ==
  IF \E n \in 1..Len(table.rows) : KeywordId(table.rows[n]) = KeywordId(row)
    THEN table
    ELSE [table EXCEPT !.rows = Append(@, row)]

RECURSIVE KeywordsInsertAll(_, _)
KeywordsInsertAll(table, rows) ==
  IF rows = <<>> \/ table.threw THEN table
  ELSE KeywordsInsertAll(KeywordsInsert(table, Head(rows)), Tail(rows))

\* the loop over rawKeywords that fills the map `agg`, kept in insertion order
RECURSIVE Aggregate(_, _, _)
Aggregate(rawKeywords, scoreByRepo, agg) ==
  IF rawKeywords = <<>> THEN agg
  ELSE LET row == Head(rawKeywords)
           normalized == Normalized(row.keyword)
           repoScore == IF row.repo_id \in DOMAIN scoreByRepo
                          THEN scoreByRepo[row.repo_id] ELSE 0
           contribution == row.weight * repoScore
           same == {n \in 1..Len(agg) :
                      agg[n].kind = row.kind /\ agg[n].keyword = normalized}
       IN Aggregate(Tail(rawKeywords), scoreByRepo,
            IF same # {}
              THEN [n \in 1..Len(agg) |->
                      IF n \in same THEN [agg[n] EXCEPT !.weight = @ + contribution]
                      ELSE agg[n]]
              ELSE Append(agg, [keyword |-> normalized, kind |-> row.kind,
                                weight |-> contribution]))

\* the table after the call and what the call returns
aggregateKeywords(tables, topK) ==
  LET rows == tables.analyses
      byScore == StableSort(rows,
                   [a, b \in 1..Len(rows) |->
                      rows[b].final_score - rows[a].final_score])
      top == SubSeq(byScore, 1, Min(topK, Len(byScore)))
      repoIds == {top[n].repo_id : n \in 1..Len(top)}
      scoreByRepo == [r \in repoIds |->
                        LET n == CHOOSE n \in 1..Len(top) :
                                   /\ top[n].repo_id = r
                                   /\ \A m \in 1..Len(top) :
                                        top[m].repo_id = r => m <= n
                        IN top[n].final_score]
      rawKeywords == SelectSeq(tables.keywords,
                               LAMBDA row : row.repo_id \in repoIds)
      agg == Aggregate(rawKeywords, scoreByRepo, <<>>)
      sorted == StableSort(agg,
                  [a, b \in 1..Len(agg) |->
                     IF agg[b].weight # agg[a].weight
                       THEN agg[b].weight - agg[a].weight
                       ELSE localeCompare(agg[a].keyword, agg[b].keyword)])
      \* Math.round(weight * 1e6) / 1e6: the weights are whole millionths
      stored == KeywordsInsertAll([rows |-> tables.keywords, threw |-> FALSE],
                  [n \in 1..Len(sorted) |->
                     [repo_id |-> "null", keyword |-> sorted[n].keyword,
                      kind |-> sorted[n].kind, weight |-> sorted[n].weight]])
  IN IF tables.analyses = <<>>
       THEN [keywords |-> tables.keywords, threw |-> FALSE, returned |-> <<>>]
       ELSE [keywords |-> stored.rows, threw |-> stored.threw,
             returned |-> IF stored.threw THEN <<>> ELSE sorted]

NoKeywords == [analyses |-> <<>>, keywords |-> <<>>, calls |-> <<>>]

\* runAnalysis stores the analysis of a repository and its keywords, each
\* with the default weight 1.0
KeywordsAnalysisStored ==
  LET KeywordLists ==
        {<< <<"rust", "primary">> >>,
         << <<"Rust ", "primary">>, <<"wasm", "primary">>, <<"rust", "secondary">> >>,
         << <<"wasm", "primary">>, <<"rust", "primary">>, <<"wasm", "search_query">> >>}
  IN \E r \in {"repo1", "repo2"}, score \in {500000, 800000},
        keywords \in KeywordLists :
       /\ \A n \in 1..Len(kw.analyses) : kw.analyses[n].repo_id # r
       /\ kw' = [kw EXCEPT
            !.analyses = Append(@, [repo_id |-> r, final_score |-> score]),
            !.keywords = KeywordsInsertAll([rows |-> @, threw |-> FALSE],
                           [n \in 1..Len(keywords) |->
                              [repo_id |-> r, keyword |-> keywords[n][1],
                               kind |-> keywords[n][2], weight |-> 1]]).rows,
            !.calls = IF @ = <<>> THEN @
                      ELSE [@ EXCEPT ![Len(@)].analysisAdded = TRUE]]
       /\ UNCHANGED notKeywords

\* aggregateKeywords(db, run_id, topK), with the default topK or with 1
AggregateKeywordsCall ==
  \E topK \in {1, 20} :
    LET out == aggregateKeywords(kw, topK)
    IN /\ Len(kw.calls) < MaxAggregations
       /\ kw' = [kw EXCEPT
            !.keywords = out.keywords,
            !.calls = Append(@, [topK |-> topK, threw |-> out.threw,
                                 returned |-> out.returned,
                                 analysisAdded |-> FALSE])]
       /\ UNCHANGED notKeywords

KeywordsNext == KeywordsAnalysisStored \/ AggregateKeywordsCall

(***************************************************************************)
(* Scoring (src/llm/scoring.ts) and its replay (src/scout/replay.ts).      *)
(* LLM scores are in 10^-7, weights in hundredths, bonuses in tenths, and  *)
(* final scores in millionths.  An optional array is a record that says    *)
(* whether it is defined.                                                  *)
(***************************************************************************)
MaxReplays == 2   \* replayScoring calls made on the run

\* the policy file at filePath, or the built-in scoring_policy_v1.json
loadScoringPolicy(filePath) ==
  IF filePath = "undefined"
    THEN [version |-> "v1",
          weights |-> [w1_interestingness |-> 35, w2_novelty |-> 25,
                       w3_collaboration_potential |-> 35, w4_signals_bonus |-> 5],
          signals_bonus |-> [has_integration_surface |-> 5, has_api_or_sdk |-> 3,
                             no_risk_flags |-> 2]]
    ELSE [version |-> "test-modified",
          weights |-> [w1_interestingness |-> 50, w2_novelty |-> 10,
                       w3_collaboration_potential |-> 35, w4_signals_bonus |-> 5],
          signals_bonus |-> [has_integration_surface |-> 5, has_api_or_sdk |-> 3,
                             no_risk_flags |-> 2]]

computeSignalsBonus(signals, bonusConfig) ==
  LET surface == IF signals.integration_surface.defined
                   THEN signals.integration_surface.items ELSE <<>>
      \* /\bapi\b|\bsdk\b/i, on the surface items of the model
      apiOrSdk == {"API", "REST API", "sdk"}
  IN (IF Len(surface) > 0 THEN bonusConfig.has_integration_surface ELSE 0)
     + (IF \E n \in 1..Len(surface) : surface[n] \in apiOrSdk
          THEN bonusConfig.has_api_or_sdk ELSE 0)
     + (IF signals.risk_flags.defined /\ Len(signals.risk_flags.items) = 0
          THEN bonusConfig.no_risk_flags ELSE 0)

\* Math.round(raw * 1_000_000) / 1_000_000, with raw in 10^-9
computeFinalScore(scores, signals, policy) ==
  LET bonus == computeSignalsBonus(signals, policy.signals_bonus)
      raw == policy.weights.w1_interestingness * scores.interestingness
             + policy.weights.w2_novelty * scores.novelty
             + policy.weights.w3_collaboration_potential
                 * scores.collaboration_potential
             + policy.weights.w4_signals_bonus * bonus * 1000000
  IN (raw + 500) \div 1000

\* the loop over the analyses of the run; output_json and llm_scores_json
\* are the JSON of validated output and parse to what was stored
RECURSIVE ReplayLoop(_, _, _)
ReplayLoop(rows, policy, st) ==
  IF rows = <<>> THEN st
  ELSE LET analysis == Head(rows)
           newScore == computeFinalScore(analysis.llm_scores,
                                         analysis.output.signals, policy)
           oldScore == analysis.final_score
           delta == newScore - oldScore
       IN ReplayLoop(Tail(rows), policy,
            IF delta # 0
              THEN [st EXCEPT !.replayed = @ + 1, !.changed = @ + 1,
                              !.diffs = Append(@, [repo_id |-> analysis.repo_id,
                                                   old_score |-> oldScore,
                                                   new_score |-> newScore,
                                                   delta |-> delta])]
              ELSE [st EXCEPT !.replayed = @ + 1, !.unchanged = @ + 1])

replayScoringDefaultPolicy(rows, opts) ==
  LET policy == loadScoringPolicy("undefined")
      st == ReplayLoop(rows, policy,
                       [replayed |-> 0, changed |-> 0, unchanged |-> 0,
                        diffs |-> <<>>])
  IN [policy_version |-> policy.version, replayed |-> st.replayed,
      changed |-> st.changed, unchanged |-> st.unchanged, diffs |-> st.diffs]

replayScoring(rows, opts) ==
  LET policy == loadScoringPolicy(opts.policyPath)
      st == ReplayLoop(rows, policy,
                       [replayed |-> 0, changed |-> 0, unchanged |-> 0,
                        diffs |-> <<>>])
  IN [policy_version |-> policy.version, replayed |-> st.replayed,
      changed |-> st.changed, unchanged |-> st.unchanged, diffs |-> st.diffs]

NoReplay == [analyses |-> <<>>, replays |-> <<>>]

\* runAnalysis, called with a policy path, validates the output of the LLM
\* for a repository and stores it with its final score
ReplayAnalysisStored ==
  LET Optional(lists) == {[defined |-> FALSE, items |-> <<>>]}
                           \cup {[defined |-> TRUE, items |-> l] : l \in lists}
  IN \E r \in {"repo1", "repo2"}, policyPath \in {"undefined", "policy.json"},
        interestingness \in {3333333, 8000000},
        integration_surface \in Optional({<<"REST API">>, <<"cli">>}),
        risk_flags \in Optional({<<>>, <<"unlicensed">>}) :
       LET scores == [interestingness |-> interestingness, novelty |-> 5000000,
                      collaboration_potential |-> 10000000]
           signals == [integration_surface |-> integration_surface,
                       risk_flags |-> risk_flags]
       IN /\ \A n \in 1..Len(rescore.analyses) : rescore.analyses[n].repo_id # r
          /\ rescore' = [rescore EXCEPT !.analyses = Append(@,
                      [repo_id |-> r,
                       output |-> [scores |-> scores, signals |-> signals],
                       llm_scores |-> scores,
                       final_score |-> computeFinalScore(scores, signals,
                                         loadScoringPolicy(policyPath)),
                       policyPath |-> policyPath])]
          /\ UNCHANGED notReplay

ReplayScoringCallWritesBack ==
  \E policyPath \in {"undefined", "policy.json"} :
    LET opts == [policyPath |-> policyPath]
    IN /\ Len(rescore.replays) < MaxReplays
       /\ rescore' = [analyses |->
                   [n \in 1..Len(rescore.analyses) |->
                      [rescore.analyses[n] EXCEPT !.final_score =
                         computeFinalScore(rescore.analyses[n].llm_scores,
                                           rescore.analyses[n].output.signals,
                                           loadScoringPolicy(policyPath))]],
                 replays |-> Append(rescore.replays,
                               [opts |-> opts, rows |-> rescore.analyses,
                                result |-> replayScoring(rescore.analyses, opts)])]
       /\ UNCHANGED notReplay

\* replayScoring(db, run_id, opts); `rows` keeps the rows the call read
ReplayScoringCall ==
  \E policyPath \in {"undefined", "policy.json"} :
    LET opts == [policyPath |-> policyPath]
    IN /\ Len(rescore.replays) < MaxReplays
       /\ rescore' = [rescore EXCEPT !.replays = Append(@,
                   [opts |-> opts, rows |-> rescore.analyses,
                    result |-> replayScoring(rescore.analyses, opts)])]
       /\ UNCHANGED notReplay

ReplayNext == ReplayAnalysisStored \/ ReplayScoringCall

(***************************************************************************)
(* A TokenBucketLimiter with the default configuration and an injected     *)
(* clock, called directly (src/tests/github/throttle.test.ts).             *)
(***************************************************************************)
MaxLimiterSteps == 5   \* calls and clock changes made on the limiter

\* the constructor at time 0: full buckets
NewLimiter ==
  [tokens |-> [b \in Buckets |-> MaxTokens(b)],
   lastRefill |-> [b \in Buckets |-> 0],
   now |-> 0, steps |-> 0,
   last |-> [op |-> "none", bucket |-> "none", before |-> 0, elapsed |-> 0,
             returned |-> 0]]

\* the injected clock moves on: by 1 ms, by 1 s, by 2 h
LimiterTick ==
  \E d \in {1, 1000, 7200000} :
    /\ lim.steps < MaxLimiterSteps
    /\ lim' = [lim EXCEPT !.now = @ + d, !.steps = @ + 1]
    /\ UNCHANGED notLimiter

\* n calls of consume(bucket) in a row at time t: the token count left
RECURSIVE ConsumeTimes(_, _, _, _, _)
ConsumeTimes(n, b, tok, last, t) ==
  IF n = 0 THEN tok
  ELSE \* c is bound to the value of one call, evaluated once
       CHOOSE left \in {ConsumeTimes(n - 1, b, c.tokens, t, t) :
                          c \in {Consume(b, tok, last, t)}} : TRUE

\* for (let i = 0; i < 30; i++) limiter.consume('search'), or one call less
LimiterDrain ==
  \E n \in {SearchMaxTokens - 1, SearchMaxTokens} :
    /\ lim.steps < MaxLimiterSteps
    /\ lim' = [lim EXCEPT
         !.tokens["search"] =
            ConsumeTimes(n, "search", @, lim.lastRefill["search"], lim.now),
         !.lastRefill["search"] = lim.now,
         !.steps = @ + 1,
         !.last = [op |-> "drain", bucket |-> "search",
                   before |-> lim.tokens["search"],
                   elapsed |-> lim.now - lim.lastRefill["search"],
                   returned |-> 0]]
    /\ UNCHANGED notLimiter

\* limiter.consume(bucket)
LimiterConsume(b) ==
  LET c == Consume(b, lim.tokens[b], lim.lastRefill[b], lim.now)
  IN /\ lim.steps < MaxLimiterSteps
     /\ lim' = [lim EXCEPT
          !.tokens[b] = c.tokens,
          !.lastRefill[b] = lim.now,
          !.steps = @ + 1,
          !.last = [op |-> "consume", bucket |-> b, before |-> lim.tokens[b],
                    elapsed |-> lim.now - lim.lastRefill[b],
                    returned |-> c.waitMs]]
     /\ UNCHANGED notLimiter

\* waitForToken after consume returned a wait: await sleep(waitMs), then
\* this.tokens[bucket] -= 1
LimiterSleepTake ==
  /\ lim.last.op = "consume"
  /\ lim.last.returned > 0
  /\ lim.steps < MaxLimiterSteps
  /\ lim' = [lim EXCEPT
       !.now = AfterSleep(@, lim.last.returned),
       !.tokens[lim.last.bucket] = @ - TokenScale,
       !.steps = @ + 1,
       !.last = [op |-> "take", bucket |-> lim.last.bucket,
                 before |-> lim.tokens[lim.last.bucket], elapsed |-> 0,
                 returned |-> 0]]
  /\ UNCHANGED notLimiter

\* limiter.getTokens(bucket)
LimiterGetTokens(b) ==
  LET filled == Refill(b, lim.tokens[b], lim.lastRefill[b], lim.now)
  IN /\ lim.steps < MaxLimiterSteps
     /\ lim' = [lim EXCEPT
          !.tokens[b] = filled,
          !.lastRefill[b] = lim.now,
          !.steps = @ + 1,
          !.last = [op |-> "getTokens", bucket |-> b, before |-> lim.tokens[b],
                    elapsed |-> lim.now - lim.lastRefill[b],
                    returned |-> filled]]
     /\ UNCHANGED notLimiter

LimiterNext ==
  \/ LimiterTick
  \/ LimiterDrain
  \/ \E b \in Buckets : LimiterConsume(b)
  \/ LimiterSleepTake
  \/ \E b \in Buckets : LimiterGetTokens(b)

(***************************************************************************)
(* The readmes table, row by row (src/db/dao/repos.ts, ReadmesDao).        *)
(* A row is [readme_id, repo_id, sha256, content_text, fetched_at];        *)
(* readme_id is the primary key.                                           *)
(***************************************************************************)
MaxUpserts == 3   \* ReadmesDao.upsert calls made

ReadmeRepoIds == {"repo1", "repo2"}
ReadmeTexts == {"# one", "# two", "# three"}

\* createHash('sha256').update(content_text).digest('hex').slice(0, 8): the
\* prefix kept in readme_id; two of the texts share it
Sha8(text) ==
  CASE text = "# one" -> "0a1b2c3d"
    [] text = "# two" -> "4e5f6a7b"
    [] OTHER -> "0a1b2c3d"

\* upsert without its DELETE: the INSERT alone, which throws on a readme_id
\* already present and then adds nothing
ReadmesDaoInsertOnly(table, readme, at) ==
  LET row == [readme_id |-> <<readme.repo_id, Sha8(readme.content_text)>>,
              repo_id |-> readme.repo_id,
              content_text |-> readme.content_text,
              fetched_at |-> at]
  IN IF \E x \in table : x.readme_id = row.readme_id
     THEN table
     ELSE table \cup {row}

\* ReadmesDao.upsert(readme) at time `at`: DELETE FROM readmes WHERE
\* repo_id = ?, then INSERT; the INSERT throws on a readme_id still present
ReadmesDaoUpsert(table, readme, at) ==
  LET row == [readme_id |-> <<readme.repo_id, Sha8(readme.content_text)>>,
              repo_id |-> readme.repo_id,
              content_text |-> readme.content_text,
              fetched_at |-> at]
      kept == {x \in table : x.repo_id # readme.repo_id}
  IN IF \E x \in kept : x.readme_id = row.readme_id
     THEN kept
     ELSE kept \cup {row}

\* ReadmesDao.getByRepoId(repo_id): the rows SELECT ... WHERE repo_id = ? sees
ReadmesGetByRepoId(table, r) == {x \in table : x.repo_id = r}

NoReadmes ==
  [rows |-> {}, upserts |-> 0,
   last |-> [r \in ReadmeRepoIds |-> [stored |-> FALSE, text |-> "", at |-> 0]]]

\* readmesDao.upsert({repo_id, content_text, ...}) from pass 1 or pass 2 of
\* any run; new Date() is the number of the call
ReadmeStored ==
  \E r \in ReadmeRepoIds, text \in ReadmeTexts :
    /\ rdm.upserts < MaxUpserts
    /\ rdm' = [rows |-> ReadmesDaoUpsert(rdm.rows,
                          [repo_id |-> r, content_text |-> text],
                          rdm.upserts + 1),
               upserts |-> rdm.upserts + 1,
               last |-> [rdm.last EXCEPT
                           ![r] = [stored |-> TRUE, text |-> text,
                                   at |-> rdm.upserts + 1]]]
    /\ UNCHANGED notReadmes

ReadmesNext == ReadmeStored

(***************************************************************************)
(* The run orchestrator (src/scout/run_context.ts) and the run id of the   *)
(* rows written while it processes a run.  Run ids are numbered in the     *)
(* order randomUUID() produced them.  Every row remembers the value of     *)
(* orchestrator.run_id at the time it was written (`property`).            *)
(***************************************************************************)
MaxOrchestrators == 2       \* createRunOrchestrator calls made
MaxOrchestratorWrites == 3  \* rows written through one orchestrator

NoOrchestrator ==
  [runs |-> 0, run_id |-> 0, captured |-> 0, open |-> FALSE, writes |-> 0,
   rows |-> {}]

\* a row of steps, audit_log, analyses or briefs
RunRow(table, what, run_id) ==
  [table |-> table, what |-> what, run_id |-> run_id, property |-> orch.run_id]

\* createRunOrchestrator(db, args, config): const run_id = randomUUID(),
\* runsDao.create, the audit event run.created, and the object returned,
\* whose methods close over the constant
CreateRunOrchestrator ==
  /\ orch.runs < MaxOrchestrators
  /\ orch' = [runs |-> orch.runs + 1, run_id |-> orch.runs + 1,
              captured |-> orch.runs + 1, open |-> FALSE, writes |-> 0,
              rows |-> orch.rows \cup
                 {[table |-> "audit_log", what |-> "run.created",
                   run_id |-> orch.runs + 1, property |-> orch.runs + 1]}]
  /\ UNCHANGED notOrchestrator

\* (orchestrator as any).run_id = opts.runId, for --run-id of a run that exists
OrchestratorRunIdSet ==
  \E runId \in 1..orch.runs :
    /\ orch.runs > 0
    /\ orch.writes = 0
    /\ runId # orch.run_id
    /\ orch' = [orch EXCEPT !.run_id = runId]
    /\ UNCHANGED notOrchestrator

\* orchestrator.startStep(name): stepsDao.start({step_id, run_id, name}) and
\* the audit event step.started, both with the run_id of the closure
OrchestratorStartStep ==
  /\ orch.runs > 0
  /\ ~orch.open
  /\ orch.writes < MaxOrchestratorWrites
  /\ orch' = [orch EXCEPT
       !.open = TRUE,
       !.writes = @ + 1,
       !.rows = @ \cup {RunRow("steps", "step", orch.captured),
                        RunRow("audit_log", "step.started", orch.captured)}]
  /\ UNCHANGED notOrchestrator

\* step.finish(status, stats): stepsDao.finish updates the row by step_id;
\* the audit event step.finished or step.failed has the run_id of the closure
OrchestratorFinishStep ==
  \E event \in {"step.finished", "step.failed"} :
    /\ orch.open
    /\ orch' = [orch EXCEPT
         !.open = FALSE,
         !.rows = @ \cup {RunRow("audit_log", event, orch.captured)}]
    /\ UNCHANGED notOrchestrator

\* orchestrator.logAudit(opts): auditDao.write({ ...opts, run_id })
OrchestratorLogAudit ==
  /\ orch.runs > 0
  /\ orch.writes < MaxOrchestratorWrites
  /\ orch' = [orch EXCEPT
       !.writes = @ + 1,
       !.rows = @ \cup {RunRow("audit_log", "brief.generation.error",
                               orch.captured)}]
  /\ UNCHANGED notOrchestrator

\* analysesDao.insert({ run_id: orchestrator.run_id, ... }) in runAnalysis,
\* briefsDao.insert({ run_id: orchestrator.run_id, ... }) in generateBriefs
OrchestratorRowStored ==
  \E table \in {"analyses", "briefs"} :
    /\ orch.open
    /\ orch.writes < MaxOrchestratorWrites
    /\ orch' = [orch EXCEPT
         !.writes = @ + 1,
         !.rows = @ \cup {RunRow(table, "row", orch.run_id)}]
    /\ UNCHANGED notOrchestrator

OrchestratorNext ==
  \/ CreateRunOrchestrator
  \/ OrchestratorRunIdSet
  \/ OrchestratorStartStep
  \/ OrchestratorFinishStep
  \/ OrchestratorLogAudit
  \/ OrchestratorRowStored

(***************************************************************************)
(* Callers of waitForToken('search') on one limiter.  A caller is          *)
(* suspended only at `await sleep(waitMs)`; everything else in             *)
(* waitForToken runs without interruption.                                 *)
(***************************************************************************)
MaxWaiterSteps == 5   \* calls, wake-ups and clock changes

Callers == {"A", "B"}

NoWaiters ==
  [tokens |-> SearchMaxTokens * TokenScale, lastRefill |-> 0, now |-> 0,
   steps |-> 0,
   pc |-> [c \in Callers |-> "idle"],
   wake |-> [c \in Callers |-> 0],
   last |-> [caller |-> "none", filled |-> 0]]

\* the clock moves on by 1 ms or by 1 s
WaitersTick ==
  \E d \in {1, 1000} :
    /\ wtr.steps < MaxWaiterSteps
    /\ wtr' = [wtr EXCEPT !.now = @ + d, !.steps = @ + 1]
    /\ UNCHANGED notWaiters

\* requests made earlier have used the bucket up, or all but one token
WaitersDrain ==
  \E n \in {SearchMaxTokens - 1, SearchMaxTokens} :
    /\ wtr.steps = 0
    /\ wtr' = [wtr EXCEPT
         !.tokens = ConsumeTimes(n, "search", @, wtr.lastRefill, wtr.now),
         !.lastRefill = wtr.now,
         !.steps = @ + 1]
    /\ UNCHANGED notWaiters

\* waitForToken(bucket) up to its await: consume() takes a token and the
\* caller proceeds, or returns a wait and the caller sleeps
WaiterCall(c) ==
  LET out == Consume("search", wtr.tokens, wtr.lastRefill, wtr.now)
  IN /\ wtr.pc[c] # "sleeping"
     /\ wtr.steps < MaxWaiterSteps
     /\ wtr' = [wtr EXCEPT
          !.tokens = out.tokens,
          !.lastRefill = wtr.now,
          !.steps = @ + 1,
          !.pc[c] = IF out.waitMs > 0 THEN "sleeping" ELSE "proceeded",
          !.wake[c] = AfterSleep(wtr.now, out.waitMs),
          !.last = IF out.waitMs > 0 THEN [caller |-> "none", filled |-> 0]
                   ELSE [caller |-> c,
                         filled |-> Refill("search", wtr.tokens,
                                           wtr.lastRefill, wtr.now)]]
     /\ UNCHANGED notWaiters

\* waitForToken(bucket) after its await: the timer has fired, at its time or
\* later; this.tokens[bucket] -= 1 and the caller proceeds
WaiterWake(c) ==
  LET t == Max(wtr.now, wtr.wake[c])
  IN /\ wtr.pc[c] = "sleeping"
     /\ wtr' = [wtr EXCEPT
          !.now = t,
          !.tokens = @ - TokenScale,
          !.steps = @ + 1,
          !.pc[c] = "proceeded",
          !.last = [caller |-> c,
                    filled |-> Refill("search", wtr.tokens, wtr.lastRefill, t)]]
     /\ UNCHANGED notWaiters

WaitersNext ==
  \/ WaitersTick
  \/ WaitersDrain
  \/ \E c \in Callers : WaiterCall(c)
  \/ \E c \in Callers : WaiterWake(c)

(***************************************************************************)
(* runAnalysis invocations on one store that overlap in time: from two     *)
(* processes on the same database file, or from two promises of one.  An   *)
(* invocation is suspended only at `await callOpenRouterJson(...)`.        *)
(* The store holds what runPass1 left for both runs: three linked          *)
(* repositories, two of them with a README.                                *)
(***************************************************************************)
MaxInvocations == 2   \* runAnalysis invocations started

Invocations == {1, 2}

OverlapLinks == [run \in Runs |-> Repos]
OverlapReadmes == [r \in Repos |-> IF r = "c/z" THEN 0 ELSE 1]

NoInvocation == [pc |-> "idle", run |-> "run1", snapshot |-> <<>>, idx |-> 0]

NoOverlap ==
  [analyses |-> [run \in Runs |-> [r \in Repos |-> 0]],
   started |-> 0,
   inv |-> [i \in Invocations |-> NoInvocation]]

\* the end of one iteration of `for (const repo of repos)`
OverlapAdvance(v) ==
  [v EXCEPT !.idx = @ + 1,
            !.pc = IF v.idx >= Len(v.snapshot) THEN "done" ELSE "loop"]

\* runAnalysis(db, orchestrator, opts) up to the head of its loop:
\* const repos = getReposForRun(db, orchestrator.run_id)
OverlapStart(i, run) ==
  /\ ovl.inv[i].pc \in {"idle", "done"}
  /\ ovl.started < MaxInvocations
  /\ ovl' = [ovl EXCEPT
       !.started = @ + 1,
       !.inv[i] = [pc |-> "loop", run |-> run, idx |-> 1,
                   snapshot |-> GetReposForRun(OverlapLinks, OverlapReadmes, run)]]
  /\ UNCHANGED notOverlap

\* if (analysesDao.getByRepoAndRun(repo.repo_id, orchestrator.run_id)) continue
OverlapSkipAnalysed(i) ==
  LET v == ovl.inv[i]
  IN /\ v.pc = "loop"
     /\ GetByRepoAndRun(ovl.analyses, v.snapshot[v.idx].repo, v.run)
     /\ ovl' = [ovl EXCEPT !.inv[i] = OverlapAdvance(v)]
     /\ UNCHANGED notOverlap

\* if (!repo.readme_content) { ... continue }
OverlapSkipNoReadme(i) ==
  LET v == ovl.inv[i]
  IN /\ v.pc = "loop"
     /\ ~GetByRepoAndRun(ovl.analyses, v.snapshot[v.idx].repo, v.run)
     /\ ~v.snapshot[v.idx].readme
     /\ ovl' = [ovl EXCEPT !.inv[i] = OverlapAdvance(v)]
     /\ UNCHANGED notOverlap

\* await callOpenRouterJson(...): the invocation is suspended
OverlapLlmCall(i) ==
  LET v == ovl.inv[i]
  IN /\ v.pc = "loop"
     /\ ~GetByRepoAndRun(ovl.analyses, v.snapshot[v.idx].repo, v.run)
     /\ v.snapshot[v.idx].readme
     /\ ovl' = [ovl EXCEPT !.inv[i].pc = "awaiting"]
     /\ UNCHANGED notOverlap

\* the LLM call returns: analysesDao.insert and the rest of the try block;
\* or it throws: failed++, and the loop goes on
OverlapLlmDone(i, ok) ==
  LET v == ovl.inv[i]
  IN /\ v.pc = "awaiting"
     /\ ovl' = [ovl EXCEPT
          !.analyses = IF ok THEN AnalysesInsert(@, v.snapshot[v.idx].repo, v.run)
                       ELSE @,
          !.inv[i] = OverlapAdvance(v)]
     /\ UNCHANGED notOverlap

OverlapNext ==
  \/ \E i \in Invocations, run \in Runs : OverlapStart(i, run)
  \/ \E i \in Invocations : OverlapSkipAnalysed(i)
  \/ \E i \in Invocations : OverlapSkipNoReadme(i)
  \/ \E i \in Invocations : OverlapLlmCall(i)
  \/ \E i \in Invocations, ok \in BOOLEAN : OverlapLlmDone(i, ok)

Init ==
  /\ now = 0
  /\ tokens \in InitTokenLevels
  /\ lastRefill = [b \in Buckets |-> 0]
  /\ cache = [k \in Keys |-> NoRow]
  /\ pc = "idle"
  /\ req = NoRequest
  /\ attempt = 0
  /\ sleepMs = 0
  /\ resp = NoResponse
  /\ result = NoResult
  /\ hist = NoHist
  /\ throttle = NoEvent
  /\ nfetch = 0
  /\ repos = [r \in Repos |-> 0]
  /\ readmes = [r \in Repos |-> 0]
  /\ links = [run \in Runs |-> {}]
  /\ analyses = [run \in Runs |-> [r \in Repos |-> 0]]
  /\ call = NoCall
  /\ ncalls = 0
  /\ brief = NoBriefs
  /\ audit = NoAudit
  /\ llm = NoUnit
  /\ pair = NoPair
  /\ grp = NoGroups
  /\ kw = NoKeywords
  /\ rescore = NoReplay
  /\ lim = NewLimiter
  /\ rdm = NoReadmes
  /\ orch = NoOrchestrator
  /\ wtr = NoWaiters
  /\ ovl = NoOverlap

SpecHttp == Init /\ [][HttpNext]_vars
SpecScout == Init /\ [][ScoutNext]_vars
SpecBriefs == Init /\ [][BriefNext]_vars
SpecAudit == Init /\ [][AuditNext]_vars
SpecLlm == Init /\ [][LlmNext]_vars
SpecFilter == Init /\ [][FilterNext]_vars
SpecGroups == Init /\ [][GroupsNext]_vars
SpecKeywords == Init /\ [][KeywordsNext]_vars
SpecReplay == Init /\ [][ReplayNext]_vars
SpecLimiter == Init /\ [][LimiterNext]_vars
SpecReadmes == Init /\ [][ReadmesNext]_vars
SpecOrchestrator == Init /\ [][OrchestratorNext]_vars
SpecWaiters == Init /\ [][WaitersNext]_vars
SpecOverlap == Init /\ [][OverlapNext]_vars

(***************************************************************************)
(* Properties.                                                             *)
(***************************************************************************)

\* C1. For every run and every repository, after any sequence of runAnalysis
\* and runPass2 calls on that run (repeated calls included), the analyses
\* table holds at most one row with that (repo_id, run_id).
C1_OneAnalysisPerRepoAndRun ==
  \A run \in Runs, r \in Repos : analyses[run][r] <= 1

\* a runPass2 call, made after the run was analysed, is in runAnalysis again
\* and has passed over a repo that has a README and a row
C1_Witness ==
  /\ call.op = "pass2" /\ call.phase = "analyze"
  /\ call.analyzed = 0 /\ call.failed = 0
  /\ \E i \in 1..(call.idx - 1) :
        /\ call.snapshot[i].readme
        /\ analyses[call.run][call.snapshot[i].repo] = 1

\* C2. In GitHubClient.request every network fetch (the first attempt and
\* each retry after a 429, 403 or 5xx response) happens only after a token
\* has been taken from the caller-specified bucket for that fetch: a request
\* never has made more fetches than it has taken tokens from its bucket.
C2_TokenTakenForEveryFetch ==
  hist.fetches <= hist.taken[req.bucket]

\* C3. During one runPass2 call the number of newly discovered repos
\* (repos_discovered) never exceeds maxNewReposTotal.
C3_DiscoveredWithinCap ==
  call.op = "pass2" => call.discovered <= call.maxNew

\* C4. During one runPass2 call at most maxLLMAnalysesTotal new LLM analyses
\* are performed.
C4_AnalysesWithinCap ==
  call.op = "pass2" => call.analyzed <= call.maxLLM

\* C5. Every GitHubClient.request call ends after at most three network
\* fetches, for every sequence of 429, 403 and 5xx responses: it makes no
\* fourth fetch, and is over once the third is answered.  Every sleep on the
\* way has a finite length fixed by the response headers (the wait computed
\* from Retry-After and X-RateLimit-Reset) or by the backoff rule (2 s, 4 s);
\* the wait for a token is at most the time one token takes to refill.
C5_BoundedRequest ==
  /\ hist.fetches <= 3
  /\ hist.fetches = 3 => pc \in {"done", "idle"}
  /\ pc = "backoffSleep" => sleepMs \in {2000, 4000}
  /\ pc = "tokenSleep" =>
       sleepMs \in 1..CeilDiv(TokenScale, RefillRatePerMs(req.bucket))
  /\ pc = "rateLimitSleep" =>
       /\ sleepMs \in Int
       /\ sleepMs =
            HandleRateLimitResponse(resp.retry_after, resp.rate_limit_reset, now)

\* a request that was answered 5xx three times has ended with three fetches
C5_Witness ==
  /\ pc = "done" /\ hist.fetches = 3
  /\ resp.status = 500 /\ result.kind = "throw"

\* C6. When the retries of a request are used up on a 429 or 403 response
\* (the response that takes the attempt count to three is a 429 or a 403),
\* the request fails with the rate-limit error kind (GitHubRateLimitError),
\* never with the server-error or the generic API error kind.
C6_RateLimitErrorKind ==
  (pc = "done" /\ resp.status \in {429, 403} /\ attempt >= 3) =>
     /\ result.kind = "throw"
     /\ result.error = "GitHubRateLimitError"

\* the third response of a request is a 403: the request has ended with the
\* rate-limit error
C6_Witness ==
  /\ pc = "done" /\ resp.status = 403 /\ hist.fetches = 3
  /\ result.error = "GitHubRateLimitError"

\* C7. When a request is answered 304 Not Modified and a cache row exists
\* for its cache key, the call returns the cached body with status 200 and
\* fromCache = true.
C7_NotModifiedReturnsCachedBody ==
  (pc = "done" /\ resp.status = 304 /\ req.cached.exists) =>
     /\ result.kind = "return"
     /\ result.status = 200
     /\ result.fromCache
     /\ result.data = SuccessData(req.cached.body)

\* C8. A 304 response changes only fetched_at on the cache row: body_blob,
\* etag, last_modified and status stay as they were, and fetched_at is set
\* to the time of the 304.  No other row changes.
C8_NotModifiedFrame ==
  [][ (pc = "fetch" /\ resp'.status = 304 /\ hist'.fetches # hist.fetches
         /\ req.cached.exists)
      => cache' = [cache EXCEPT ![req.key].fetched_at = now] ]_vars

\* a 304 has been answered later than the row was stored: fetched_at moved
\* and the rest of the row is what the request read
C8_Witness ==
  /\ pc = "done" /\ resp.status = 304 /\ req.cached.exists
  /\ cache[req.key].fetched_at = now
  /\ req.cached.fetched_at < now
  /\ cache[req.key].body = req.cached.body
  /\ cache[req.key].body # <<>>

\* C9. On a 429 or 403 response the wait before the retry is Retry-After
\* seconds times 1000 ms whenever the Retry-After header is present;
\* otherwise max(0, reset*1000 - now) + 1000 ms whenever X-RateLimit-Reset is
\* present; otherwise 60000 ms.  A 429 or 403 that does not use up the
\* retries is followed by that wait.
C9_WaitAsStated ==
  (resp.status \in {429, 403} /\ pc \in {"rateLimitSleep", "done"} /\ attempt < 3) =>
    /\ pc = "rateLimitSleep"
    /\ sleepMs =
         IF resp.retry_after.present
           THEN ParseInt(resp.retry_after.text).val * 1000
           ELSE IF resp.rate_limit_reset.present
             THEN Max(0, ParseInt(resp.rate_limit_reset.text).val * 1000 - now)
                    + 1000
             ELSE 60000

\* the shortlisted briefs stored by the call that hold repository r
ShortlistedWith(r) ==
  { i \in DOMAIN brief.stored :
      brief.stored[i].status = "shortlisted" /\ r \in brief.stored[i].repo_ids }

\* C10 as stated. Among the briefs that one generateBriefs call stores with
\* status shortlisted, every repo other than the designated own repo appears
\* in at most one brief.
C10_AtMostOneShortlistedBrief ==
  \A r \in BriefRepos \ {brief.own} : Cardinality(ShortlistedWith(r)) <= 1

\* C10. Among the briefs that one generateBriefs call stores with status
\* shortlisted, every repo other than the designated own repo appears in at
\* most one brief that does not hold the own repo (and so in at most one
\* brief at all when no own repo is designated).
C10_AtMostOneBriefWithoutOwnRepo ==
  \A r \in BriefRepos \ {brief.own} :
     Cardinality({ i \in ShortlistedWith(r) :
                     brief.own \notin brief.stored[i].repo_ids }) <= 1

\* a call with an own repo has shortlisted a pair without the own repo, and
\* then the own repo with a member of that pair
C10_Witness ==
  /\ brief.phase = "done" /\ brief.own # NoOwn
  /\ \E r \in BriefRepos \ {brief.own} :
        /\ Cardinality(ShortlistedWith(r)) = 2
        /\ \E i \in ShortlistedWith(r) : brief.own \notin brief.stored[i].repo_ids

\* the non-empty strings a value carries under matching keys, at any depth
RECURSIVE SecretsOf(_)
SecretsOf(v) ==
  CASE v.t = "array" -> UNION {SecretsOf(v.items[i]) : i \in 1..Len(v.items)}
    [] v.t = "object" ->
         UNION { (IF SECRET_KEY_PATTERNS(k) /\ v.f[k].t = "string" /\ Len(v.f[k].s) > 0
                  THEN {v.f[k].s} ELSE {}) \cup SecretsOf(v.f[k]) : k \in DOMAIN v.f }
    [] OTHER -> {}

\* C11: no audit row holds, in data_json, the text of a non-empty string that
\* the data carried under a key matching token|key|secret|password|
\* authorization, at whatever depth and also below another matching key.
C11_NoSecretInAuditRow ==
  \A s \in SecretsOf(audit.data) : ~Occurs(Quote(s), audit.data_json)


\* C12: callOpenRouter fetches at most three times in one call, sleeps
\* 1000 ms before the second and 2000 ms before the third attempt and at no
\* other time, and throws its last error after three retriable failures.
C12_ThreeAttemptsWithBackoff ==
  /\ llm.fetches <= 3
  /\ Len(llm.sleeps) <= 2
  /\ \A i \in 1..Len(llm.sleeps) : llm.sleeps[i] = 1000 * 2^(i - 1)
  /\ Len(llm.sleeps) = (IF llm.pc = "fetch" THEN llm.fetches
                        ELSE IF llm.fetches = 0 THEN 0 ELSE llm.fetches - 1)
  /\ llm.attempt = 3 => /\ llm.pc \in {"thrown", "unit failed"}
                        /\ llm.error = llm.lastError
                        /\ llm.fetches = 3
C12_Witness ==
  /\ llm.pc = "thrown" /\ llm.attempt = 3 /\ llm.fetches = 3
  /\ llm.sleeps = <<1000, 2000>>
  /\ llm.error.name = "OpenRouterInvalidOutputError"

C14_WaitFromRetryAfter ==
  \A i \in 1..Len(llm.sleeps) :
    (llm.replies[i].status = 429 /\ llm.replies[i].retryAfter.present
       /\ ~ParseInt(llm.replies[i].retryAfter.text).nan)
      => llm.sleeps[i] >= 1000 * ParseInt(llm.replies[i].retryAfter.text).val

\* C15: a unit whose reply is valid JSON but fails its schema is counted as
\* failed only after the three attempts of the retry policy were made.
C15_SchemaFailureRetried ==
  (llm.pc = "unit failed" /\ llm.error.name = "ZodError")
    => llm.fetches = LLM_MAX_RETRIES

\* C16: for a unit that failed on invalid LLM output, unparsable or
\* rejected by the schema, exactly one llm.output.invalid_json event was
\* written.
C16_OneInvalidJsonEvent ==
  (llm.pc = "unit failed"
     /\ llm.error.name \in {"OpenRouterInvalidOutputError", "ZodError"})
    => Cardinality({i \in 1..Len(llm.events) :
                      llm.events[i] = "llm.output.invalid_json"}) = 1


\* C17: an LLM step that finishes has status failed exactly when at least
\* one of its units failed and none succeeded, and status success otherwise.
C17_StepFailedIffAllUnitsFailed ==
  llm.pc = "step done" =>
    /\ llm.step \in {"failed", "success"}
    /\ llm.step = "failed" <=>
         /\ \E i \in 1..Len(llm.outcomes) : llm.outcomes[i] = "failed"
         /\ \A i \in 1..Len(llm.outcomes) : llm.outcomes[i] # "succeeded"
C17_Witness ==
  /\ llm.pc = "step done" /\ llm.step = "failed"
  /\ llm.outcomes = <<"skipped", "failed">>

\* C19: when the function that started a step is over, returned or thrown,
\* the step was finished exactly once.
C19_StepFinalizedOnce ==
  llm.pc \in {"step done", "step threw"} =>
    llm.finishes = 1 /\ llm.step \in {"failed", "success"}


\* C18: once a cap of pass 2 has bound, a pass2.*.capped event was written
\* and the stats of one of the steps of the call hold capped = true
\* together with a reason.
C18_CapRecordedInStepStats ==
  (call.op = "pass2" /\ call.capped) =>
    /\ call.capEvents # {}
    /\ \E i \in 1..Len(Pass2StepStats(call)) :
         LET st == Pass2StepStats(call)[i]
         IN  /\ "capped" \in DOMAIN st
             /\ st.capped = TRUE
             /\ "reason" \in DOMAIN st

\* C20: the repos table holds at most one row for every full_name.
C20_OneRowPerFullName ==
  \A r \in Repos : repos[r] <= 1
C20_Witness ==
  \E r \in Repos : repos[r] = 1 /\ r \in links["run1"] /\ r \in links["run2"]


\* C21: a README fetch answered 404, in pass 1 or in pass 2, is followed by
\* a repo.readme.missing event, and leaves the repository without a README
\* row, which is what makes runAnalysis pass over it in that run.
C21_ReadmeMissingRecorded ==
  call.readme.outcome = "missing" =>
    /\ call.readme.event = "repo.readme.missing"
    /\ readmes[call.readme.repo] = 0

\* the tokens of a signature in which an interop trigger token counts: its
\* keywords, its search-query tokens and its integration surface
CarriedTokens(sig) ==
  sig.keywords_primary \cup sig.keywords_secondary
    \cup sig.search_queries_tokens \cup sig.integration_surface

SignatureNonEmpty(sig) ==
  CarriedTokens(sig) \cup sig.problem_summary_tokens # {}

\* C22: filterPair rejects a pair exactly when functional_overlap >= threshold
\* and neither repository carries an interop trigger token; it allows with the
\* exception penalty exactly when functional_overlap >= threshold and at least
\* one repository carries such a token; in every other case it allows with
\* penalty 0.
C22_FilterPairDecision ==
  pair.called =>
    LET r == pair.result
        high == r.functional_overlap >= pair.config.overlap_threshold
        token == \/ CarriedTokens(pair.sigA) \cap INTEROP_TRIGGER_TOKENS # {}
                 \/ CarriedTokens(pair.sigB) \cap INTEROP_TRIGGER_TOKENS # {}
        exception == /\ ~r.rejected
                     /\ r.exception_triggered
                     /\ r.penalty_applied = pair.config.exception_penalty
    IN /\ r.rejected <=> (high /\ ~token)
       /\ exception <=> (high /\ token)
       /\ ~high => (~r.rejected /\ ~r.exception_triggered /\ r.penalty_applied = 0)

\* a pair at the default threshold let through by the token of one repository
\* that is in its secondary keywords only
C22_Witness ==
  /\ pair.called
  /\ pair.config.overlap_threshold = 700000
  /\ pair.result.exception_triggered
  /\ pair.sigA.keywords_secondary = {"adapter"}
  /\ CarriedTokens(pair.sigB) \cap INTEROP_TRIGGER_TOKENS = {}
  /\ "adapter" \notin pair.sigA.keywords_primary \cup pair.sigA.integration_surface

C24_GroupsIndependentOfRowOrder ==
  grp.called => grp.ofSupplied = grp.ofStored

\* rows supplied in another order, with a cap that cuts the enumeration short
C24_Witness ==
  /\ grp.called
  /\ grp.supplied.analyses # grp.stored.analyses
  /\ grp.supplied.repos # grp.stored.repos
  /\ Len(grp.ofSupplied) = 2
  /\ grp.opts.maxCombos = 2
  /\ grp.ofSupplied[1].overlap_score > grp.ofSupplied[2].overlap_score

\* C25: generateCandidateGroups never returns more than maxCombos groups,
\* with pairs only or with triples enabled.
C25_AtMostMaxCombosGroups ==
  grp.called =>
    /\ Len(grp.ofSupplied) <= grp.opts.maxCombos
    /\ Len(grp.ofStored) <= grp.opts.maxCombos

\* the cap cutting the triples short, and the cap cutting the pairs short
C25_Witness ==
  /\ grp.called
  /\ Len(grp.ofSupplied) = grp.opts.maxCombos
  /\ grp.opts.maxCombos = 2
  /\ grp.opts.groupSize = 3
  /\ \E x \in 1..2 : Len(grp.ofSupplied[x].repo_ids) = 3

\* C26: aggregateKeywords called twice for the same run, with no analysis
\* added in between, returns the same (keyword, kind, weight) tuples in the
\* same order.
C26_AggregateKeywordsRepeatable ==
  \A n \in 1..(Len(kw.calls) - 1) :
    (~kw.calls[n].analysisAdded /\ kw.calls[n + 1].topK = kw.calls[n].topK)
      => /\ ~kw.calls[n + 1].threw
         /\ kw.calls[n + 1].returned = kw.calls[n].returned

\* two calls in a row on two analysed repositories, returning several
\* keywords of which two have the same weight
C26_Witness ==
  /\ Len(kw.calls) = 2
  /\ ~kw.calls[1].analysisAdded
  /\ kw.calls[2].topK = kw.calls[1].topK
  /\ Len(kw.analyses) = 2
  /\ Len(kw.calls[2].returned) >= 3
  /\ \E x, y \in 1..Len(kw.calls[2].returned) :
       /\ x # y
       /\ kw.calls[2].returned[x].weight = kw.calls[2].returned[y].weight
  /\ \E n \in 1..Len(kw.keywords) : kw.keywords[n].repo_id = "null"

\* C27: replayScoring changes no row of the store and performs no network
\* call.
C27_ReplayReadsOnly ==
  [][rescore.replays' # rescore.replays =>
       /\ rescore.analyses' = rescore.analyses
       /\ UNCHANGED <<repos, readmes, links, analyses, cache, audit, kw>>
       /\ UNCHANGED <<nfetch, llm>>]_vars

\* a replay under another policy than the one a row was stored under: it
\* reports the new score and the row keeps the old one
C27_Witness ==
  /\ rescore.replays # <<>>
  /\ rescore.replays[Len(rescore.replays)].result.changed > 0
  /\ \E n \in 1..Len(rescore.analyses) :
       rescore.analyses[n].final_score
         = rescore.replays[Len(rescore.replays)].result.diffs[1].old_score

\* C28: for a run whose analyses were stored under a given scoring policy,
\* replayScoring with the same policy reports changed = 0 and unchanged = the
\* number of analysis rows.
C28_SamePolicyNothingChanged ==
  \A k \in 1..Len(rescore.replays) :
    LET replay == rescore.replays[k]
    IN (\A n \in 1..Len(replay.rows) :
          replay.rows[n].policyPath = replay.opts.policyPath)
         => /\ replay.result.changed = 0
            /\ replay.result.unchanged = Len(replay.rows)

\* a replay under the modified policy of two rows stored under it, one of
\* them with a score that the rounding to the millionth cuts
C28_Witness ==
  \E k \in 1..Len(rescore.replays) :
    LET replay == rescore.replays[k]
    IN /\ replay.opts.policyPath = "policy.json"
       /\ Len(replay.rows) = 2
       /\ \A n \in 1..2 : replay.rows[n].policyPath = "policy.json"
       /\ \E n \in 1..2 : replay.rows[n].llm_scores.interestingness = 3333333
       /\ replay.result.unchanged = 2

\* C29: when a bucket holds less than one token, consume() returns the
\* positive wait ceil((1 - tokens) / refillRatePerMs) and takes no token from
\* the bucket.
C29_EmptyBucketReportsWait ==
  lim.last.op = "consume" =>
    LET b == lim.last.bucket
        rate == RefillRatePerMs(b)
        \* what the bucket holds at the time of the call
        held == Min(MaxTokens(b), lim.last.before + lim.last.elapsed * rate)
        wait == lim.last.returned
    IN held < TokenScale =>
         /\ wait > 0
         /\ wait * rate >= TokenScale - held
         /\ (wait - 1) * rate < TokenScale - held
         /\ lim.tokens[b] = held

\* consume() on a bucket that is in debt after a waitForToken, some time later
C29_Witness ==
  /\ lim.last.op = "consume"
  /\ lim.last.before < 0
  /\ lim.last.elapsed > 0
  /\ lim.last.returned > 1
  /\ lim.tokens[lim.last.bucket] > lim.last.before

\* C30: a bucket's token count grows linearly with the time elapsed since
\* its last observation and never exceeds the bucket's capacity, however long
\* the elapsed time.
C30_LinearRefillUpToCapacity ==
  /\ \A b \in Buckets : lim.tokens[b] <= MaxTokens(b)
  /\ lim.last.op = "getTokens" =>
       LET b == lim.last.bucket
           grown == lim.last.before + lim.last.elapsed * RefillRatePerMs(b)
       IN lim.last.returned = IF grown <= MaxTokens(b) THEN grown
                              ELSE MaxTokens(b)

\* a drained bucket observed after two hours, and one observed after a second
C30_Witness ==
  /\ lim.last.op = "getTokens"
  /\ lim.last.bucket = "search"
  /\ lim.last.before <= TokenScale
  /\ lim.last.elapsed >= 7200000
  /\ lim.last.returned = MaxTokens("search")

\* C31: after any sequence of README upserts the readmes table holds at most
\* one row per repository, and that row is the README stored last for it
C31_OneLatestReadmePerRepo ==
  \A r \in ReadmeRepoIds :
    LET found == ReadmesGetByRepoId(rdm.rows, r)
    IN /\ Cardinality(found) <= 1
       /\ rdm.last[r].stored =>
            found = {[readme_id |-> <<r, Sha8(rdm.last[r].text)>>,
                      repo_id |-> r,
                      content_text |-> rdm.last[r].text,
                      fetched_at |-> rdm.last[r].at]}

\* a repository whose README was stored, and then stored again with another
\* text of the same digest prefix, next to another repository's README
C31_Witness ==
  /\ rdm.upserts = MaxUpserts
  /\ \A r \in ReadmeRepoIds : rdm.last[r].stored
  /\ \E r \in ReadmeRepoIds :
       /\ rdm.last[r].at = MaxUpserts
       /\ rdm.last[r].text = "# three"
       /\ \E q \in ReadmeRepoIds : q # r /\ rdm.last[q].at = 2

\* C32: every brief row inserted by generateBriefs has status shortlisted
\* exactly when its stored score is at least minBriefScore, and
\* rejected_by_threshold otherwise
C32_StatusFollowsThreshold ==
  \A i \in 1..Len(brief.stored) :
    /\ brief.stored[i].status \in {"shortlisted", "rejected_by_threshold"}
    /\ brief.stored[i].status = "shortlisted"
         <=> brief.stored[i].score >= brief.minBriefScore

\* one call that stored a brief scored exactly minBriefScore and one below it
C32_Witness ==
  /\ brief.phase = "done"
  /\ \E i, j \in 1..Len(brief.stored) :
       /\ brief.stored[i].score = brief.minBriefScore
       /\ brief.stored[i].status = "shortlisted"
       /\ brief.stored[j].score < brief.minBriefScore
       /\ brief.stored[j].status = "rejected_by_threshold"

\* C33: one generateBriefs call inserts at most maxBriefs brief rows, and
\* makes no LLM call once the maxBriefs-th brief has been stored
C33_NoBriefNorLlmCallPastMaxBriefs ==
  /\ [](Len(brief.stored) <= brief.maxBriefs)
  /\ [][(brief.phase = "loop" /\ Len(brief.stored) >= brief.maxBriefs)
          => /\ brief'.phase = "done"
             /\ brief'.candidates_evaluated = brief.candidates_evaluated
             /\ brief'.failed = brief.failed
             /\ brief'.stored = brief.stored]_vars

\* a call that stopped at maxBriefs stored briefs with a group left over
C33_Witness ==
  /\ brief.phase = "done"
  /\ brief.maxBriefs = MaxBriefs
  /\ Len(brief.stored) = brief.maxBriefs
  /\ brief.idx <= Len(brief.groups)

\* C34: for one cache key, a request answered 304 returns the same data
\* value that the earlier 2xx response for that key returned (the cache row
\* holds the body of that response), for JSON bodies and for non-JSON bodies
\* such as a raw README
C34_NotModifiedSameDataAsSuccess ==
  \A k \in Keys :
    (pc = "done" /\ req.key = k /\ resp.status = 304 /\ cache[k].exists) =>
       \E data \in {SuccessData(cache[k].body)} :
          /\ result.kind = "return"
          /\ result.data = data

\* C35: after every aggregateKeywords call, a second call made after more
\* analyses were added included, each run-aggregate keyword row in the store
\* (repo absent) carries the weight that this call returned for its
\* (keyword, kind)
C35_AggregateRowsCarryReturnedWeights ==
  (kw.calls # <<>> /\ ~kw.calls[Len(kw.calls)].analysisAdded) =>
     LET returned == kw.calls[Len(kw.calls)].returned
     IN \A n \in 1..Len(kw.keywords), m \in 1..Len(returned) :
          ( /\ kw.keywords[n].repo_id = "null"
            /\ kw.keywords[n].keyword = returned[m].keyword
            /\ kw.keywords[n].kind = returned[m].kind )
          => kw.keywords[n].weight = returned[m].weight

\* C36: every step row and audit event written through an orchestrator while
\* it processes a run carries the run id that the analyses and briefs
\* written in that processing carry: orchestrator.run_id at that time
C36_OrchestratorRowsCarryRunId ==
  \A row \in orch.rows :
    row.table \in {"steps", "audit_log"} => row.run_id = row.property

\* C37: waitForToken lets a caller proceed only when the bucket, refilled to
\* the current time, holds at least one token for that caller, so the
\* refilled token count never goes below zero, for any interleaving of the
\* callers that wait on the limiter
C37_ProceedsOnlyWithToken ==
  /\ wtr.last.caller # "none" => wtr.last.filled >= TokenScale
  /\ Refill("search", wtr.tokens, wtr.lastRefill, wtr.now) >= 0

\* C38: if two runAnalysis or runPass2 invocations for the same run id
\* overlap in time, each suspended at its LLM calls, the analyses table still
\* ends with at most one row per (repo_id, run_id)
C38_OneAnalysisPerRepoAndRunWhenOverlapping ==
  \A run \in Runs, r \in Repos : ovl.analyses[run][r] <= 1

C40_Pass1FetchesOnlyMissingReadmes ==
  [][(call.op = "pass1" /\ call.phase = "hydrate")
       => readmes[call.items[call.idx]] = 0]_vars

====
